---- MODULE Spec2Model ----
(***************************************************************************)
(* EngAi multi-agent system: the MCP dispatch server (mcp/server.py), the  *)
(* client facade (mcp/client.py) and the orchestrator pipeline             *)
(* (agents/orchestrator_agent.py) as a state machine.                      *)
(*                                                                         *)
(* Threads call the server's methods.  Every server method runs its body   *)
(* under `with self.lock` (threading.Lock, not re-entrant); a method whose *)
(* body makes no call is one atomic step, send_message holds the lock      *)
(* across the execution of the tool handler and is therefore split in a    *)
(* begin step and the handler's steps.                                     *)
(***************************************************************************)
EXTENDS Integers, Sequences, FiniteSets, TLC

VARIABLES
  agents,         \* MCPServer.agents: the set of registered agent names
  tools,          \* MCPServer.tools: tool key -> handler
  message_queue,  \* MCPServer.message_queue: agent name -> list of messages
  lock,           \* MCPServer.lock: the thread holding it, or NoThread
  stack,          \* per thread: the calls in progress, innermost last
  nextId,         \* the next fresh message id (uuid4 in the code)
  runs,           \* number of OrchestratorAgent.process or generate_project calls started
  obs,            \* the last completed top-level call: its arguments, what it saw and its outcome
  drained,        \* history: agent name -> "full" or "empty" when the last thing that happened
                  \*   to its inbox contents was a get_messages returning such a list, else "no"
  pending,        \* history: agent name -> ids accepted into its inbox since it was last emptied
  lastReg,        \* history: tool key -> the handler of the latest register_tool for that key
  replaced,       \* history: the tool keys registered again with another handler
  accepted,       \* history: agent name -> ids appended to its inbox since it was last
                  \*   registered or unregistered
  delivered,      \* history: agent name -> ids returned by get_messages since then
  text,           \* the LLM output handed to the extraction functions
  fs,             \* the files under FileGenerator.base_output_dir: path -> directory or file
  now,            \* the clock datetime.now() reads, in ticks
  owners,         \* history: project folder -> number of create_project_folder calls
                  \*   that returned it
  faults          \* number of saves that failed for a reason outside the program

vars == <<agents, tools, message_queue, lock, stack, nextId, runs, obs,
          drained, pending, lastReg, replaced, accepted, delivered, text, fs, now,
                 owners, faults>>

(***************************************************************************)
(* Bounds                                                                  *)
(***************************************************************************)
MaxMsgs == 2
MaxRuns == 1
MaxLen == 5
MaxDoc == 4
MaxProjects == 2
MaxClock == 2
MaxFaults == 1

Threads == {"t1", "t2"}
NoThread == "none"

(***************************************************************************)
(* Python values: None, str and dict.  A str is a sequence of tokens, each *)
(* a piece of text that the regular expressions of the code treat as a     *)
(* unit: the fence marker, a newline, a blank, a fence tag, a word.        *)
(***************************************************************************)
PyNone == [t |-> "none"]
Str(s) == [t |-> "str", v |-> s]
\* a dict: its items (d) and its keys in the order they were inserted (ko),
\* the order in which it is iterated and written
DictOf(keys, d) == [t |-> "dict", d |-> d, ko |-> keys]
RECURSIVE KeySeq(_)
KeySeq(keys) ==
  IF keys = {} THEN <<>>
  ELSE LET k == CHOOSE k \in keys : TRUE IN <<k>> \o KeySeq(keys \ {k})
\* a dict of no item or of one item
Dict(d) == DictOf(KeySeq(DOMAIN d), d)
\* d[k] = v: a new key comes last, a key that is there keeps its place
SetItem(x, k, v) ==
  DictOf(IF k \in DOMAIN x.d THEN x.ko ELSE Append(x.ko, k), (k :> v) @@ x.d)
List(v) == [t |-> "list", v |-> v]
IsStr(x) == x.t = "str"
IsDict(x) == x.t = "dict"
Get(x, k, default) == IF k \in DOMAIN x.d THEN x.d[k] ELSE default

\* the fence marker, three backticks
FENCE == "FENCE"
NL == "\n"
SP == " "
Txt(s) == Str(<<s>>)
EmptyStr == Str(<<>>)
EmptyDict == Dict(<<>>)

\* outcome of a Python call: a returned value or a raised exception with its str()
Ret(v) == [kind |-> "return", val |-> v]
Exc(cls, m) == [kind |-> "raise", cls |-> cls, msg |-> m]

(***************************************************************************)
(* mcp/message.py                                                          *)
(***************************************************************************)
NoId == 0
Msg(s) == [t |-> "str", v |-> s]

\* MCPRequest(message_id, from_agent, to_agent, content={}, tool, parameters)
MCPRequest(id, from, to, tool, parameters) ==
  [message_id |-> id, message_type |-> "request", from_agent |-> from,
   to_agent |-> to, correlation_id |-> NoId, tool |-> tool,
   parameters |-> parameters]

\* MCPNotification(message_id, from_agent, to_agent, content={}, event, data)
MCPNotification(id, from, to) ==
  [message_id |-> id, message_type |-> "notification", from_agent |-> from,
   to_agent |-> to, correlation_id |-> NoId]

\* MCPResponse(...): message_id is a fresh uuid4 that nothing reads; it is left out
MCPResponse(from, to, correlation_id, result, success, error_message) ==
  [message_type |-> "response", from_agent |-> from, to_agent |-> to,
   correlation_id |-> correlation_id, result |-> result,
   success |-> success, error_message |-> error_message]

\* a keyword argument that the caller of a constructor leaves out
Missing == [t |-> "missing"]
Id(n) == [t |-> "id", v |-> n]

\* pydantic's check of a field annotated str with no default: required, and
\* None is not a str; any str, the empty one included, passes
RequiredStr(x) == x # Missing /\ x # PyNone /\ x.t = "str"

ValidationError(field) == Exc("ValidationError", field)

\* MCPRequest(**kw) and MCPResponse(**kw): pydantic validates the keyword
\* arguments against the annotations of lines 25-31, 36-38 and 43-46.
\* message_id, from_agent, content, parameters and result are always given
\* well-typed here; to_agent, tool and correlation_id are the arguments
NewMessage(cls, kw) ==
  IF ~RequiredStr(kw.to_agent)
  THEN ValidationError("to_agent")
  ELSE IF cls = "MCPRequest"
       THEN IF ~RequiredStr(kw.tool)
            THEN ValidationError("tool")
            ELSE Ret([MCPRequest(kw.message_id, kw.from_agent, kw.to_agent.v,
                                 kw.tool.v, <<>>)
                        EXCEPT !.correlation_id =
                          IF kw.correlation_id \in {Missing, PyNone}
                          THEN NoId ELSE kw.correlation_id.v])
       ELSE Ret(MCPResponse(kw.from_agent, kw.to_agent.v,
                            IF kw.correlation_id \in {Missing, PyNone}
                            THEN NoId ELSE kw.correlation_id.v,
                            PyNone, TRUE, PyNone))

(***************************************************************************)
(* mcp/server.py: MCPServer                                                *)
(***************************************************************************)
ToolKey(agent_name, tool_name) == agent_name \o "." \o tool_name

NoTool == [found |-> FALSE]

\* faulty variant of ResolveTool: the bare name is tried first
Mut_ResolveTool(tls, request) ==
  LET tool_key == ToolKey(request.to_agent, request.tool) IN
  IF request.tool \notin DOMAIN tls
  THEN IF tool_key \notin DOMAIN tls
       THEN NoTool
       ELSE [found |-> TRUE, key |-> tool_key]
  ELSE [found |-> TRUE, key |-> request.tool]

\* _handle_request, lines 88-105: the fully-qualified key first, then the bare name
ResolveTool(tls, request) ==
  LET tool_key == ToolKey(request.to_agent, request.tool) IN
  IF tool_key \notin DOMAIN tls
  THEN IF request.tool \notin DOMAIN tls
       THEN NoTool
       ELSE [found |-> TRUE, key |-> request.tool]
  ELSE [found |-> TRUE, key |-> tool_key]

\* send_message, lines 56-66
AgentNotFound(message) ==
  MCPResponse(message.to_agent, message.from_agent, message.message_id,
              PyNone, FALSE,
              Msg("Agent " \o message.to_agent \o " not found"))

\* faulty variant of ToolNotFound: success left at its default, True
Mut_ToolNotFound(request) ==
  MCPResponse(request.to_agent, request.from_agent, request.message_id,
              PyNone, TRUE,
              Msg("Tool " \o request.tool \o " not found for agent "
                  \o request.to_agent))

\* _handle_request, lines 93-102
ToolNotFound(request) ==
  MCPResponse(request.to_agent, request.from_agent, request.message_id,
              PyNone, FALSE,
              Msg("Tool " \o request.tool \o " not found for agent "
                  \o request.to_agent))

\* the exception classes that do not derive from Exception: the handler
\* `except Exception` (server.py, line 119) lets them through.  They are
\* BaseException itself, the built-in classes that derive from it and not
\* from Exception, and Halt, which stands for a class of the program that
\* derives from BaseException; every other class name is one of Exception
\* or of a class derived from it (CancelledError is the one of asyncio)
BaseOnly == {"BaseException", "BaseExceptionGroup", "GeneratorExit",
             "KeyboardInterrupt", "SystemExit", "CancelledError", "Halt"}

\* faulty variant of HandleResult: the handler's return value is dropped
Mut_HandleResult(request, hout) ==
  IF hout.kind = "return"
  THEN Ret(MCPResponse(request.to_agent, request.from_agent, request.message_id,
                       PyNone, TRUE, PyNone))
  ELSE IF hout.cls \in BaseOnly THEN hout
       ELSE Ret(MCPResponse(request.to_agent, request.from_agent,
                            request.message_id, PyNone, FALSE, Msg(hout.msg)))

\* _handle_request, lines 107-129: the response it returns, built from the
\* handler's outcome, or the handler's exception when the except clause
\* does not catch it
HandleResult(request, hout) ==
  IF hout.kind = "return"
  THEN Ret(MCPResponse(request.to_agent, request.from_agent, request.message_id,
                       hout.val, TRUE, PyNone))
  ELSE IF hout.cls \in BaseOnly THEN hout
       ELSE Ret(MCPResponse(request.to_agent, request.from_agent,
                            request.message_id, PyNone, FALSE, Msg(hout.msg)))

\* faulty variant of send_request: response.success is not tested
Mut_send_request(response) ==
  IF response # PyNone
  THEN Ret(response.result)
  ELSE Exc("Exception", "No response received")

\* MCPAgent.send_request, lines 201-207 (MCPClient.call_agent delegates to it)
send_request(response) ==
  IF response # PyNone /\ response.success
  THEN Ret(response.result)
  ELSE IF response # PyNone
       THEN Exc("Exception",
                "Tool execution failed: " \o response.error_message.v)
       ELSE Exc("Exception", "No response received")

\* what the caller of send_message gets: the response, or call_agent's result
SendOutcome(via, response) ==
  IF via = "call_agent" THEN send_request(response) ELSE Ret(response)

\* what send_message gives its caller after _handle_request: the response,
\* or the exception that came through (the with-block releases the lock)
Handled(via, r) ==
  [resp |-> IF r.kind = "raise" THEN PyNone ELSE r.val,
   out |-> IF r.kind = "raise" THEN r ELSE SendOutcome(via, r.val)]

Top(stk) == stk[Len(stk)]
Pop(stk) == SubSeq(stk, 1, Len(stk) - 1)
NoInv == [invoked |-> FALSE]

(***************************************************************************)
(* Tool handlers.  h1, h_raise, h_exit and h_reenter stand for the         *)
(* callables that a user of the server registers (h_exit raises SystemExit, *)
(* which is no Exception); the other six are the bound methods the         *)
(* agents register in their constructors.                                  *)
(***************************************************************************)
StubHandlers == {"h1", "h_raise", "h_exit", "h_reenter"}
AgentHandlers == {"create_architecture", "create_database_schema",
                  "plan_api_routes", "generate_code", "generate_frontend",
                  "generate_tests"}

\* a stub's behaviour once its body has run (nres: outcome of its nested call)
StubOutcome(h, nres) ==
  CASE h = "h1" -> Ret(Txt("v1"))
    [] h = "h_plan" ->
         Ret(DictOf(<<"api_route_plan", "agent">>,
                    [api_route_plan |-> Dict([base_url |-> Txt("/api")]),
                     agent |-> Txt("api_route_planner")]))
    [] h = "h_raise" -> Exc("Exception", "boom")
    [] h = "h_exit" -> Exc("SystemExit", "stop")
    [] h = "h_reenter" -> IF nres.kind = "raise" THEN nres ELSE Ret(Txt("v3"))

\* the agent whose constructor registers the handler
AgentOf(h) ==
  CASE h = "create_architecture" -> "architect"
    [] h = "create_database_schema" -> "database_agent"
    [] h = "plan_api_routes" -> "api_route_planner"
    [] h = "generate_code" -> "code_generator"
    [] h = "generate_frontend" -> "frontend_generator"
    [] h = "generate_tests" -> "test_generator"

\* llm/gemini_service.py, PromptTemplates: the replacement fields of the
\* template each agent formats, in order of appearance
TemplateFields(h) ==
  CASE h = "create_architecture" -> <<"description", "requirements">>
    [] h = "create_database_schema" -> <<"architecture", "requirements">>
    [] h = "plan_api_routes" -> <<"architecture", "requirements">>
    [] h = "generate_code" ->
         <<"api_route_plan", "database_schema", "requirements">>
    [] h = "generate_frontend" -> <<"api_route_plan", "requirements">>
    [] h = "generate_tests" -> <<"code", "requirements">>

\* the keyword arguments each agent's process() passes to TEMPLATE.format
FormatArgs(h) ==
  CASE h = "create_architecture" -> {"description", "requirements"}
    [] h = "create_database_schema" -> {"architecture"}
    [] h = "plan_api_routes" -> {"architecture"}
    [] h = "generate_code" ->
         {"api_route_plan", "database_schema", "requirements"}
    [] h = "generate_frontend" -> {"application_description", "api_route_plan"}
    [] h = "generate_tests" -> {"code"}

\* str.format: KeyError on the first field that has no keyword argument
FormatPrompt(h) ==
  LET fields == TemplateFields(h)
      missing == {i \in 1..Len(fields) : fields[i] \notin FormatArgs(h)}
  IN IF missing = {}
     THEN Ret(PyNone)
     ELSE LET i == CHOOSE j \in missing : \A k \in missing : j <= k
          IN Exc("KeyError", "'" \o fields[i] \o "'")

\* outcomes of GeminiService.generate followed by UsageTracker.record_usage
LLMTexts == { <<"text">>,
              <<"code", NL, FENCE, "txt:requirements.txt", NL, "fastapi", NL,
                FENCE>> }
LLMOutcomes ==
  {[ok |-> TRUE, text |-> x, llm |-> "ok"] : x \in LLMTexts}
  \cup {[ok |-> FALSE, err |-> "Gemini API error: unavailable", llm |-> "api_error"],
        [ok |-> FALSE, err |-> "Error recording usage: locked", llm |-> "usage_error"]}

\* BaseAgent._call_llm, lines 48-65
call_llm(name, llm) ==
  IF llm.ok
  THEN Ret(llm.text)
  ELSE Exc("Exception", "LLM call failed for " \o name \o ": " \o llm.err)

(***************************************************************************)
(* Text matching: the fenced-block patterns of the re module on tokens     *)
(***************************************************************************)
IsSpace(tok) == tok \in {NL, SP}
MinOf(S) == CHOOSE i \in S : \A j \in S : i <= j
MaxOf(S) == CHOOSE i \in S : \A j \in S : j <= i

\* str.strip()
Strip(s) ==
  LET keep == {i \in 1..Len(s) : ~IsSpace(s[i])}
  IN IF keep = {} THEN <<>> ELSE SubSeq(s, MinOf(keep), MaxOf(keep))

\* the last index of the run of whitespace that starts at p (p - 1 if none)
SpaceEnd(s, p) ==
  LET other == {i \in p..Len(s) : ~IsSpace(s[i])}
  IN IF other = {} THEN Len(s) ELSE MinOf(other) - 1

NoMatch == [ok |-> FALSE]

\* a match of ```<tag>\s*\n(.*?)``` (nlClose false) or ```<tag>\s*\n(.*?)\n```
\* (nlClose true) that starts at index i; tags = {""} is the pattern without
\* a tag.  \s* is greedy and gives back, (.*?) is lazy: the group starts
\* after the last newline of the whitespace run that lets the rest match
\* and ends before the first closing after it
FencedAt(s, i, tags, nlClose) ==
  LET p == IF tags = {""} THEN i + 1 ELSE i + 2
      opens == /\ i <= Len(s) /\ s[i] = FENCE
               /\ tags # {""} => (i + 1 <= Len(s) /\ s[i + 1] \in tags)
      Close(q) == IF nlClose
                  THEN {k \in (q + 1)..(Len(s) - 1) :
                          s[k] = NL /\ s[k + 1] = FENCE}
                  ELSE {k \in (q + 1)..Len(s) : s[k] = FENCE}
      good == {q \in p..SpaceEnd(s, p) : s[q] = NL /\ Close(q) # {}}
  IN IF opens /\ good # {}
     THEN LET q == MaxOf(good)
              k == MinOf(Close(q))
          IN [ok |-> TRUE, start |-> i, group |-> SubSeq(s, q + 1, k - 1),
              end |-> IF nlClose THEN k + 1 ELSE k]
     ELSE NoMatch

\* re.search of such a pattern from index from on: the leftmost match
FencedSearch(s, from, tags, nlClose) ==
  LET hits == {i \in from..Len(s) : FencedAt(s, i, tags, nlClose).ok}
  IN IF hits = {} THEN NoMatch ELSE FencedAt(s, MinOf(hits), tags, nlClose)

\* re.findall / re.sub of such a pattern: the matches from left to right,
\* each search starting where the match before it ended
RECURSIVE FencedAll(_, _, _, _)
FencedAll(s, from, tags, nlClose) ==
  LET m == FencedSearch(s, from, tags, nlClose)
  IN IF m.ok THEN <<m>> \o FencedAll(s, m.end + 1, tags, nlClose) ELSE <<>>

\* re.sub(pattern, '', s): s without the matches
RECURSIVE FencedRemove(_, _, _)
FencedRemove(s, tags, nlClose) ==
  LET m == FencedSearch(s, 1, tags, nlClose)
  IN IF m.ok
     THEN SubSeq(s, 1, m.start - 1)
          \o FencedRemove(SubSeq(s, m.end + 1, Len(s)), tags, nlClose)
     ELSE s

CreateTable == {"CREATE TABLE", "create table"}

\* re.findall(r'(CREATE TABLE[^;]+(?:;|$))', s, IGNORECASE | DOTALL | MULTILINE)
\* from index from on: the keyword, at least one character that is not a
\* semicolon, and everything up to the next semicolon or the end of the text
RECURSIVE CreateStatements(_, _)
CreateStatements(s, from) ==
  LET hits == {i \in from..(Len(s) - 1) :
                 s[i] \in CreateTable /\ s[i + 1] # ";"}
  IN IF hits = {}
     THEN <<>>
     ELSE LET i == MinOf(hits)
              semi == {k \in (i + 1)..Len(s) : s[k] = ";"}
              e == IF semi = {} THEN Len(s) ELSE MinOf(semi)
          IN <<SubSeq(s, i, e)>> \o CreateStatements(s, e + 1)

\* sep.join(parts)
RECURSIVE Join(_, _)
Join(parts, sep) ==
  IF parts = <<>> THEN <<>>
  ELSE IF Len(parts) = 1 THEN parts[1]
  ELSE parts[1] \o sep \o Join(Tail(parts), sep)

\* faulty variant of extract_sql_schema: CREATE TABLE statements are looked
\* for before the sql block
Mut_extract_sql_schema(schema_output) ==
  LET sql_match == FencedSearch(schema_output, 1, {"sql"}, FALSE)
      create_matches == CreateStatements(schema_output, 1)
  IN IF create_matches # <<>>
     THEN Strip(Join(create_matches, <<NL, NL>>))
     ELSE IF sql_match.ok
          THEN Strip(sql_match.group)
          ELSE Strip(schema_output)

\* DatabaseAgent._extract_sql_schema, lines 45-58
extract_sql_schema(schema_output) ==
  LET sql_match == FencedSearch(schema_output, 1, {"sql"}, FALSE)
      create_matches == CreateStatements(schema_output, 1)
  IN IF sql_match.ok
     THEN Strip(sql_match.group)
     ELSE IF create_matches # <<>>
          THEN Strip(Join(create_matches, <<NL, NL>>))
          ELSE Strip(schema_output)

(***************************************************************************)
(* json.loads on tokens: braces, brackets, colon, comma, null and the      *)
(* string literals are tokens; any other token is not JSON                 *)
(***************************************************************************)
StringTokens == {"\"api_route_plan\"", "\"routes\"", "\"base_url\""}
Unquote(tok) ==
  CASE tok = "\"api_route_plan\"" -> "api_route_plan"
    [] tok = "\"routes\"" -> "routes"
    [] tok = "\"base_url\"" -> "base_url"

NoParse == [ok |-> FALSE]
Tok(s, i) == IF i <= Len(s) THEN s[i] ELSE "<end>"

RECURSIVE ParseValue(_, _)
RECURSIVE ParseMembers(_, _, _)
RECURSIVE ParseElements(_, _, _)

\* the JSON value that starts at the first token at or after i that is not
\* whitespace, and the index after it
ParseValue(s, i) ==
  LET j == SpaceEnd(s, i) + 1
      tok == Tok(s, j)
  IN CASE tok = "null" -> [ok |-> TRUE, val |-> PyNone, next |-> j + 1]
       [] tok \in StringTokens ->
            [ok |-> TRUE, val |-> Txt(Unquote(tok)), next |-> j + 1]
       [] tok = "{" ->
            LET k == SpaceEnd(s, j + 1) + 1
            IN IF Tok(s, k) = "}"
               THEN [ok |-> TRUE, val |-> EmptyDict, next |-> k + 1]
               ELSE ParseMembers(s, k, EmptyDict)
       [] tok = "[" ->
            LET k == SpaceEnd(s, j + 1) + 1
            IN IF Tok(s, k) = "]"
               THEN [ok |-> TRUE, val |-> List(<<>>), next |-> k + 1]
               ELSE ParseElements(s, k, <<>>)
       [] OTHER -> NoParse

\* the members of an object from index i on, after those in the dict acc; a
\* key given twice keeps its first place and its last value
ParseMembers(s, i, acc) ==
  LET j == SpaceEnd(s, i) + 1
      c == SpaceEnd(s, j + 1) + 1
      v == ParseValue(s, c + 1)
  IN IF Tok(s, j) \in StringTokens /\ Tok(s, c) = ":" /\ v.ok
     THEN LET d == SetItem(acc, Unquote(s[j]), v.val)
              k == SpaceEnd(s, v.next) + 1
          IN CASE Tok(s, k) = "}" ->
                    [ok |-> TRUE, val |-> d, next |-> k + 1]
               [] Tok(s, k) = "," -> ParseMembers(s, k + 1, d)
               [] OTHER -> NoParse
     ELSE NoParse

\* the elements of an array from index i on, after those in acc
ParseElements(s, i, acc) ==
  LET v == ParseValue(s, i)
  IN IF v.ok
     THEN LET k == SpaceEnd(s, v.next) + 1
          IN CASE Tok(s, k) = "]" ->
                    [ok |-> TRUE, val |-> List(Append(acc, v.val)),
                     next |-> k + 1]
               [] Tok(s, k) = "," -> ParseElements(s, k + 1, Append(acc, v.val))
               [] OTHER -> NoParse
     ELSE NoParse

JSONDecodeError == Exc("JSONDecodeError", "not a JSON document")

\* json.loads(s): one value and nothing but whitespace after it
json_loads(s) ==
  LET v == ParseValue(s, 1)
  IN IF v.ok /\ SpaceEnd(s, v.next) = Len(s) THEN Ret(v.val) ELSE JSONDecodeError

(***************************************************************************)
(* agents/api_route_planner_agent.py                                       *)
(***************************************************************************)
\* key in doc, for the values json.loads returns: a dict has keys, a list
\* has elements, a str has substrings, None is not iterable
Contains(key, doc) ==
  CASE doc.t = "dict" -> Ret(key \in DOMAIN doc.d)
    [] doc.t = "list" -> Ret(\E n \in 1..Len(doc.v) : doc.v[n] = Txt(key))
    [] doc.t = "str" -> Ret(\E n \in 1..Len(doc.v) : doc.v[n] = key)
    [] doc.t = "none" ->
         Exc("TypeError", "argument of type 'NoneType' is not iterable")

\* doc[key] with a str key that `key in doc` has found
Subscript(doc, key) ==
  CASE doc.t = "dict" -> Ret(doc.d[key])
    [] doc.t = "list" ->
         Exc("TypeError", "list indices must be integers or slices, not str")
    [] doc.t = "str" -> Exc("TypeError", "string indices must be integers, not 'str'")

\* the body of a strategy's loop has neither returned nor raised
GoOn == [kind |-> "continue"]

\* lines 56-64 for one match: only json.JSONDecodeError is caught
TryFenced(match) ==
  LET doc == json_loads(Strip(match)) IN
  IF doc.kind = "raise"
  THEN GoOn
  ELSE LET plan == Contains("api_route_plan", doc.val) IN
       IF plan.kind = "raise"
       THEN plan
       ELSE IF plan.val
            THEN Subscript(doc.val, "api_route_plan")
            ELSE IF Contains("base_url", doc.val).val
                    \/ Contains("routes", doc.val).val
                 THEN Ret(doc.val)
                 ELSE GoOn

\* lines 70-75 for one match
TryKeyed(match) ==
  LET doc == json_loads(Strip(match)) IN
  IF doc.kind = "raise"
  THEN GoOn
  ELSE LET plan == Contains("api_route_plan", doc.val) IN
       IF plan.kind = "raise"
       THEN plan
       ELSE IF plan.val THEN Subscript(doc.val, "api_route_plan") ELSE GoOn

\* lines 81-86 for one match
TryFlat(match) ==
  LET doc == json_loads(Strip(match)) IN
  IF doc.kind = "raise"
  THEN GoOn
  ELSE LET routes == Contains("routes", doc.val) IN
       IF routes.kind = "raise"
       THEN routes
       ELSE IF routes.val \/ Contains("base_url", doc.val).val
            THEN Ret(doc.val)
            ELSE GoOn

\* re.findall(r'\{[\s\n]*"api_route_plan"[\s\S]*?\}', output) from index from
RECURSIVE KeyedObjects(_, _)
KeyedObjects(s, from) ==
  LET Close(i) == {k \in (SpaceEnd(s, i + 1) + 2)..Len(s) : s[k] = "}"}
      hits == {i \in from..Len(s) :
                 /\ s[i] = "{"
                 /\ Tok(s, SpaceEnd(s, i + 1) + 1) = "\"api_route_plan\""
                 /\ Close(i) # {}}
  IN IF hits = {}
     THEN <<>>
     ELSE LET i == MinOf(hits)
              k == MinOf(Close(i))
          IN <<SubSeq(s, i, k)>> \o KeyedObjects(s, k + 1)

\* re.findall(r'\{[^{}]*"(?:base_url|routes)"[^{}]*\}', output) from index from
RECURSIVE FlatObjects(_, _)
FlatObjects(s, from) ==
  LET Brace(i) == {k \in (i + 1)..Len(s) : s[k] \in {"{", "}"}}
      hits == {i \in from..Len(s) :
                 /\ s[i] = "{"
                 /\ Brace(i) # {}
                 /\ s[MinOf(Brace(i))] = "}"
                 /\ \E c \in (i + 1)..(MinOf(Brace(i)) - 1) :
                      s[c] \in {"\"base_url\"", "\"routes\""}}
  IN IF hits = {}
     THEN <<>>
     ELSE LET i == MinOf(hits)
              k == MinOf(Brace(i))
          IN <<SubSeq(s, i, k)>> \o FlatObjects(s, k + 1)

\* the for loops of lines 55, 69 and 80: the first match whose body returns
\* or raises decides
RECURSIVE FirstFenced(_)
FirstFenced(matches) ==
  IF matches = <<>> THEN GoOn
  ELSE LET r == TryFenced(matches[1].group)
       IN IF r = GoOn THEN FirstFenced(Tail(matches)) ELSE r

RECURSIVE FirstKeyed(_)
FirstKeyed(matches) ==
  IF matches = <<>> THEN GoOn
  ELSE LET r == TryKeyed(matches[1])
       IN IF r = GoOn THEN FirstKeyed(Tail(matches)) ELSE r

RECURSIVE FirstFlat(_)
FirstFlat(matches) ==
  IF matches = <<>> THEN GoOn
  ELSE LET r == TryFlat(matches[1])
       IN IF r = GoOn THEN FirstFlat(Tail(matches)) ELSE r

\* lines 89-108: from the last line that has a json fence, or a brace and the
\* quoted key, to the end; the text from the first "{" to the last "}" of it
TailObject(s) ==
  LET starts == {1} \cup {q + 1 : q \in {n \in 1..Len(s) : s[n] = NL}}
      LineEnd(a) ==
        LET nls == {q \in a..Len(s) : s[q] = NL}
        IN IF nls = {} THEN Len(s) ELSE MinOf(nls) - 1
      Has(a, tok) == \E c \in a..LineEnd(a) : s[c] = tok
      Marked(a) ==
        \/ \E c \in a..LineEnd(a) : s[c] = FENCE /\ Tok(s, c + 1) = "json"
        \/ Has(a, "{") /\ Has(a, "\"api_route_plan\"")
      marked == {a \in starts : Marked(a)}
  IN IF marked = {}
     THEN GoOn
     ELSE LET json_start == MaxOf(marked)
              opens == {i \in json_start..Len(s) : s[i] = "{"}
              closes == {k \in json_start..Len(s) : s[k] = "}"}
          IN IF opens = {} \/ closes = {} \/ MaxOf(closes) < MinOf(opens)
             THEN GoOn
             ELSE TryFenced(SubSeq(s, MinOf(opens), MaxOf(closes)))

\* one strategy after another: r unless its loop ended without a return
OrElse(r, next) == IF r # GoOn THEN r ELSE next

\* faulty variant of extract_api_route_plan: a fenced document that carries
\* no plan ends the search
Mut_extract_api_route_plan(output) ==
  OrElse(FirstFenced(FencedAll(output, 1, {"json"}, TRUE)), Ret(EmptyDict))

\* APIRoutePlannerAgent._extract_api_route_plan, lines 51-111
extract_api_route_plan(output) ==
  OrElse(FirstFenced(FencedAll(output, 1, {"json"}, TRUE)),
  OrElse(FirstKeyed(KeyedObjects(output, 1)),
  OrElse(FirstFlat(FlatObjects(output, 1)),
  OrElse(TailObject(output), Ret(EmptyDict)))))

RequirementsTags == {"txt:requirements.txt", ":requirements.txt",
                     "requirements.txt", "txtrequirements.txt"}
DefaultRequirements ==
  <<"fastapi>=0.104.0", NL, "uvicorn[standard]>=0.24.0", NL,
    "pydantic>=2.5.0", NL, "pytest>=7.0.0", NL>>

\* the tokens in which the pattern "requirements" matches, case ignored
MentionsRequirements(tok) ==
  tok \in {"requirements", "Requirements"} \cup RequirementsTags

\* re.search(r'```txt\s*\n(.*?requirements.*?)\n```', output, DOTALL | IGNORECASE):
\* the group runs from the opening line to the first newline-and-fence that
\* follows the first mention of requirements
TxtBlockSearch(output) ==
  LET At(i) ==
        LET w == SpaceEnd(output, i + 2)
            nls == {q \in (i + 2)..w : output[q] = NL}
            cs == {c \in (w + 1)..Len(output) : MentionsRequirements(output[c])}
            ks == IF cs = {} THEN {}
                  ELSE {k \in (MinOf(cs) + 1)..(Len(output) - 1) :
                          output[k] = NL /\ output[k + 1] = FENCE}
        IN IF /\ i + 1 <= Len(output)
              /\ output[i] = FENCE /\ output[i + 1] \in {"txt", "TXT"}
              /\ nls # {} /\ ks # {}
           THEN [ok |-> TRUE, start |-> i,
                 group |-> SubSeq(output, MaxOf(nls) + 1, MinOf(ks) - 1),
                 end |-> MinOf(ks) + 1]
           ELSE NoMatch
      hits == {i \in 1..Len(output) : At(i).ok}
  IN IF hits = {} THEN NoMatch ELSE At(MinOf(hits))

\* CodeGeneratorAgent._extract_requirements_txt, lines 81-96
extract_requirements_txt(output) ==
  LET match == FencedSearch(output, 1, RequirementsTags, FALSE)
      match2 == TxtBlockSearch(output)
  IN IF match.ok
     THEN Strip(match.group)
     ELSE IF match2.ok THEN Strip(match2.group) ELSE DefaultRequirements

\* CodeGeneratorAgent.process, lines 71-73: the two re.sub calls and strip
StripRequirements(output) ==
  Strip(FencedRemove(FencedRemove(output, {"txt:requirements.txt"}, TRUE),
                     {":requirements.txt"}, TRUE))

\* what each agent's process() builds from the LLM text, and what the
\* registered tool method returns of it, or the exception of the extraction
AgentResult(h, output) ==
  CASE h = "create_architecture" -> Ret(Str(output))
    [] h = "create_database_schema" ->
         Ret(DictOf(<<"database_schema", "agent">>,
                    [database_schema |-> Str(extract_sql_schema(output)),
                     agent |-> Txt(AgentOf(h))]))
    [] h = "plan_api_routes" ->
         LET Result(plan) ==
               IF plan.kind = "raise"
               THEN plan
               ELSE Ret(DictOf(<<"api_route_plan", "raw_output", "agent">>,
                               [api_route_plan |-> plan.val,
                                raw_output |-> Str(output),
                                agent |-> Txt(AgentOf(h))]))
         IN Result(extract_api_route_plan(output))
    [] h = "generate_code" ->
         Ret(DictOf(<<"code", "requirements_txt", "agent">>,
                    [code |-> Str(StripRequirements(output)),
                     requirements_txt |-> Str(extract_requirements_txt(output)),
                     agent |-> Txt(AgentOf(h))]))
    [] h = "generate_frontend" ->
         Ret(DictOf(<<"frontend_code", "agent">>,
                    [frontend_code |-> Str(output), agent |-> Txt(AgentOf(h))]))
    [] h = "generate_tests" -> Ret(Str(output))

\* an agent's tool method: format the prompt, call the LLM, build the result
AgentOutcome(h, llm) ==
  LET prompt == FormatPrompt(h) IN
  IF prompt.kind = "raise"
  THEN prompt
  ELSE LET r == call_llm(AgentOf(h), llm) IN
       IF r.kind = "raise" THEN r ELSE AgentResult(h, r.val)

\* whether the handler gets as far as calling the LLM, and how that went
LLMUse(h, llm) == IF FormatPrompt(h).kind = "raise" THEN "none" ELSE llm.llm

(***************************************************************************)
(* agents/orchestrator_agent.py: OrchestratorAgent.process                 *)
(***************************************************************************)
PipeAgents == {"orchestrator", "architect", "database_agent",
               "api_route_planner", "code_generator", "frontend_generator",
               "test_generator"}

\* the tools dict after OrchestratorAgent.__init__: every agent's constructor
\* registers its tool method through MCPClient.register_tool
PipeTools ==
  [k \in {ToolKey(AgentOf(h), h) : h \in AgentHandlers} |->
     CHOOSE h \in AgentHandlers : k = ToolKey(AgentOf(h), h)]

\* process, lines 44-45: a fresh activation with the two inputs read
ProcessFrame(input_data) ==
  [fn |-> "process", step |-> 1,
   description |-> Get(DictOf(<<"description", "requirements">>, input_data),
                       "description", EmptyStr),
   requirements |-> Get(DictOf(<<"description", "requirements">>, input_data),
                        "requirements", EmptyStr),
   architecture |-> PyNone, database_schema |-> PyNone,
   api_route_plan |-> PyNone, code |-> PyNone, requirements_txt |-> PyNone,
   trace |-> <<>>]

\* faulty variant of ProcessCall: step 4 is handed the architecture in place
\* of the database schema
Mut_ProcessCall(f, id) ==
  LET req(to, tool, parameters) ==
        [op |-> "send_message", via |-> "call_agent",
         message |-> MCPRequest(id, "orchestrator", to, tool, parameters)]
  IN CASE f.step = 1 ->
            req("architect", "create_architecture",
                [description |-> f.description, requirements |-> f.requirements])
       [] f.step = 2 ->
            req("database_agent", "create_database_schema",
                [architecture |-> f.architecture, requirements |-> f.requirements])
       [] f.step = 3 ->
            req("api_route_planner", "plan_api_routes",
                [architecture |-> f.architecture, requirements |-> f.requirements])
       [] f.step = 4 ->
            req("code_generator", "generate_code",
                [api_route_plan |-> f.api_route_plan,
                 database_schema |-> f.architecture,
                 requirements |-> f.requirements])
       [] f.step = 5 ->
            req("frontend_generator", "generate_frontend",
                [api_route_plan |-> f.api_route_plan,
                 requirements |-> f.requirements])

\* the call_agent of each step, lines 48-53, 57-62, 66-71, 76-82, 88-93
ProcessCall(f, id) ==
  LET req(to, tool, parameters) ==
        [op |-> "send_message", via |-> "call_agent",
         message |-> MCPRequest(id, "orchestrator", to, tool, parameters)]
  IN CASE f.step = 1 ->
            req("architect", "create_architecture",
                [description |-> f.description, requirements |-> f.requirements])
       [] f.step = 2 ->
            req("database_agent", "create_database_schema",
                [architecture |-> f.architecture, requirements |-> f.requirements])
       [] f.step = 3 ->
            req("api_route_planner", "plan_api_routes",
                [architecture |-> f.architecture, requirements |-> f.requirements])
       [] f.step = 4 ->
            req("code_generator", "generate_code",
                [api_route_plan |-> f.api_route_plan,
                 database_schema |-> f.database_schema,
                 requirements |-> f.requirements])
       [] f.step = 5 ->
            req("frontend_generator", "generate_frontend",
                [api_route_plan |-> f.api_route_plan,
                 requirements |-> f.requirements])

AttributeError == Exc("AttributeError", "object has no attribute 'get'")

\* x if isinstance(x, str) else x.get(key, "")
StrOrGet(x, key) ==
  IF IsStr(x) THEN Ret(x)
  ELSE IF IsDict(x) THEN Ret(Get(x, key, EmptyStr)) ELSE AttributeError

\* process after a step's call_agent returned r, lines 54, 63, 72, 83-84, 94
\* and 105-114: either the next step's activation or the outcome of process
AfterStep(f, r) ==
  LET g == [f EXCEPT !.step = f.step + 1]
      Raise(e) == [done |-> TRUE, out |-> e]
      Continue(h) == [done |-> FALSE, frame |-> h]
  IN CASE f.step = 1 ->
            LET a == StrOrGet(r, "architecture") IN
            IF a.kind = "raise" THEN Raise(a)
            ELSE Continue([g EXCEPT !.architecture = a.val])
       [] f.step = 2 ->
            Continue([g EXCEPT !.database_schema =
                        IF IsDict(r) THEN Get(r, "database_schema", EmptyStr)
                        ELSE r])
       [] f.step = 3 ->
            Continue([g EXCEPT !.api_route_plan =
                        IF IsDict(r) THEN Get(r, "api_route_plan", EmptyDict)
                        ELSE EmptyDict])
       [] f.step = 4 ->
            LET c == StrOrGet(r, "code") IN
            IF c.kind = "raise" THEN Raise(c)
            ELSE Continue([g EXCEPT !.code = c.val,
                                    !.requirements_txt =
                                      IF IsDict(r)
                                      THEN Get(r, "requirements_txt", EmptyStr)
                                      ELSE EmptyStr])
       [] f.step = 5 ->
            LET fc == StrOrGet(r, "frontend_code") IN
            IF fc.kind = "raise" THEN Raise(fc)
            ELSE [done |-> TRUE,
                  out |-> Ret(DictOf(<<"architecture", "database_schema",
                                       "api_route_plan", "code",
                                       "requirements_txt", "frontend_code",
                                       "agent">>,
                                     [architecture |-> f.architecture,
                                      database_schema |-> f.database_schema,
                                      api_route_plan |-> f.api_route_plan,
                                      code |-> f.code,
                                      requirements_txt |-> f.requirements_txt,
                                      frontend_code |-> fc.val,
                                      agent |-> Txt("orchestrator")]))]

\* faulty variant of ProcessResume: a failed step is swallowed and the run goes on
Mut_ProcessResume(f, out) ==
  IF out.kind = "raise" THEN AfterStep(f, EmptyStr) ELSE AfterStep(f, out.val)

\* process resumed with the outcome of the step's call_agent: no try/except,
\* so an exception of call_agent is the outcome of process
ProcessResume(f, out) ==
  IF out.kind = "raise"
  THEN [done |-> TRUE, out |-> out]
  ELSE AfterStep(f, out.val)

(***************************************************************************)
(* Calls and returns                                                       *)
(***************************************************************************)
\* the server calls thread t is about to make: any call of its environment
\* when it runs nothing, else the call the code it runs has reached
Calls(t, env) ==
  IF stack[t] = <<>>
  THEN env
  ELSE LET f == Top(stack[t]) IN
       IF f.fn = "process"
       THEN {ProcessCall(f, nextId)}
       ELSE IF f.hpc = "nested" THEN {f.nested} ELSE {}

\* a call of thread t returns to the code below it (base): to the environment,
\* to process, or to the handler that made the call
Deliver(t, base, rec) ==
  IF base = <<>>
  THEN /\ stack' = [stack EXCEPT ![t] = <<>>]
       /\ obs' = rec
  ELSE LET f == Top(base) IN
       IF f.fn = "process"
       THEN LET g == [f EXCEPT !.trace =
                               Append(@, [step |-> f.step, inv |-> rec.inv,
                                          request |-> rec.call.message,
                                          out |-> rec.out])]
                r == ProcessResume(g, rec.out)
            IN
            IF r.done
            THEN /\ stack' = [stack EXCEPT ![t] = Pop(base)]
                 /\ obs' = [call |-> [op |-> "process"], trace |-> g.trace,
                            out |-> r.out]
            ELSE /\ stack' = [stack EXCEPT ![t] = Append(Pop(base), r.frame)]
                 /\ obs' = obs
       ELSE /\ stack' = [stack EXCEPT ![t] =
                           Append(Pop(base),
                                  [f EXCEPT !.hpc = "resumed", !.nres = rec.out])]
            /\ obs' = obs

(***************************************************************************)
(* The server's methods as actions of thread t making call c               *)
(***************************************************************************)
\* faulty variant of register_agent: an inbox that exists is kept
Mut_register_agent(t, c) ==
  /\ c.op = "register_agent"
  /\ lock = NoThread
  /\ agents' = agents \cup {c.agent_name}
  /\ message_queue' = message_queue @@ (c.agent_name :> <<>>)
  /\ pending' = [pending EXCEPT ![c.agent_name] = <<>>]
  /\ accepted' = [accepted EXCEPT ![c.agent_name] = <<>>]
  /\ delivered' = [delivered EXCEPT ![c.agent_name] = <<>>]
  /\ Deliver(t, stack[t],
             [call |-> c, out |-> Ret(PyNone),
              pre |-> [registered |-> c.agent_name \in agents,
                       pending |-> pending[c.agent_name]]])
  /\ UNCHANGED <<tools, lock, nextId, runs, drained, lastReg, replaced, text, fs, now,
                 owners, faults>>

\* MCPServer.register_agent (MCPAgent.__init__ calls it)
register_agent(t, c) ==
  /\ c.op = "register_agent"
  /\ lock = NoThread
  /\ agents' = agents \cup {c.agent_name}
  /\ message_queue' = (c.agent_name :> <<>>) @@ message_queue
  /\ pending' = [pending EXCEPT ![c.agent_name] = <<>>]
  /\ accepted' = [accepted EXCEPT ![c.agent_name] = <<>>]
  /\ delivered' = [delivered EXCEPT ![c.agent_name] = <<>>]
  /\ Deliver(t, stack[t],
             [call |-> c, out |-> Ret(PyNone),
              pre |-> [registered |-> c.agent_name \in agents,
                       pending |-> pending[c.agent_name]]])
  /\ UNCHANGED <<tools, lock, nextId, runs, drained, lastReg, replaced, text, fs, now,
                 owners, faults>>

\* faulty variant of SetTool: a key already registered keeps its handler
Mut_SetTool(tls, tool_name, tool_function) ==
  IF tool_name \in DOMAIN tls
  THEN tls
  ELSE (tool_name :> tool_function) @@ tls

\* the new tools dict of register_tool
SetTool(tls, tool_name, tool_function) ==
  (tool_name :> tool_function) @@ tls

\* MCPServer.register_tool (MCPClient.register_tool calls it with the key
\* "<agent_name>.<tool_name>")
register_tool(t, c) ==
  /\ c.op = "register_tool"
  /\ lock = NoThread
  /\ tools' = SetTool(tools, c.tool_name, c.tool_function)
  /\ lastReg' = (c.tool_name :> c.tool_function) @@ lastReg
  /\ replaced' = IF c.tool_name \in DOMAIN lastReg
                    /\ lastReg[c.tool_name] # c.tool_function
                 THEN replaced \cup {c.tool_name} ELSE replaced
  /\ Deliver(t, stack[t],
             [call |-> c, out |-> Ret(PyNone)])
  /\ UNCHANGED <<agents, message_queue, lock, nextId, runs, drained, pending,
                 accepted, delivered, text, fs, now,
                 owners, faults>>

\* faulty variant of Enqueue: the message is put in front of the inbox
Mut_Enqueue(queue, message) == <<message>> \o queue

\* the new queue of send_message, line 69
Enqueue(queue, message) == Append(queue, message)

\* MCPServer.send_message up to the call of the tool: the lock is taken, the
\* message queued and the tool looked up; without a handler to run the
\* method returns, with one it goes on holding the lock
send_message(t, c) ==
  /\ c.op = "send_message"
  /\ lock = NoThread
  /\ nextId' = nextId + 1
  /\ LET message == c.message
         Snap(k) == IF k \in DOMAIN tools THEN tools[k] ELSE "none"
         pre == [registered |-> message.to_agent \in agents,
                 qualified |-> IF message.message_type = "request"
                               THEN Snap(ToolKey(message.to_agent, message.tool))
                               ELSE "none",
                 bare |-> IF message.message_type = "request"
                          THEN Snap(message.tool) ELSE "none"]
         Done(response) ==
           Deliver(t, stack[t],
                   [call |-> c, pre |-> pre, inv |-> NoInv, resp |-> response,
                    out |-> SendOutcome(c.via, response)])
     IN IF message.to_agent \notin agents
        THEN /\ Done(AgentNotFound(message))
             /\ UNCHANGED <<message_queue, lock, drained, pending, accepted>>
        ELSE /\ message_queue' =
                  [message_queue EXCEPT ![message.to_agent] = Enqueue(@, message)]
             /\ pending' = [pending EXCEPT ![message.to_agent] =
                              Append(@, message.message_id)]
             /\ accepted' = [accepted EXCEPT ![message.to_agent] =
                               Append(@, message.message_id)]
             /\ drained' = [drained EXCEPT ![message.to_agent] = "no"]
             /\ IF message.message_type = "request"
                THEN LET r == ResolveTool(tools, message) IN
                     IF ~r.found
                     THEN Done(ToolNotFound(message)) /\ UNCHANGED lock
                     ELSE /\ lock' = t
                          /\ stack' = [stack EXCEPT ![t] =
                               Append(@, [fn |-> "send_message", call |-> c,
                                          pre |-> pre, key |-> r.key,
                                          h |-> tools[r.key], hpc |-> "run",
                                          latest |-> lastReg[r.key],
                                          replaced |-> r.key \in replaced,
                                          nested |-> PyNone, nres |-> PyNone])]
                          /\ obs' = obs
                ELSE Done(PyNone) /\ UNCHANGED lock
  /\ UNCHANGED <<agents, tools, runs, lastReg, replaced, delivered, text, fs, now,
                 owners, faults>>

\* faulty variant of ClearQueue: an existing inbox is left as it is
Mut_ClearQueue(queues, agent_name) ==
  IF agent_name \in DOMAIN queues THEN queues ELSE (agent_name :> <<>>) @@ queues

\* the new queue dict of get_messages, line 143
ClearQueue(queues, agent_name) == (agent_name :> <<>>) @@ queues

Ids(messages) == [i \in 1..Len(messages) |-> messages[i].message_id]

\* faulty variant of Drain: the list is returned without its oldest message
Mut_Drain(queues, agent_name) ==
  IF agent_name \in DOMAIN queues /\ queues[agent_name] # <<>>
  THEN Tail(queues[agent_name]) ELSE <<>>

\* the list get_messages returns, line 142: self.message_queue.get(agent_name, [])
Drain(queues, agent_name) ==
  IF agent_name \in DOMAIN queues THEN queues[agent_name] ELSE <<>>

\* MCPServer.get_messages (MCPAgent.receive_messages and
\* MCPClient.get_messages call it with the agent's own name)
get_messages(t, c) ==
  /\ c.op = "get_messages"
  /\ lock = NoThread
  /\ LET messages == Drain(message_queue, c.agent_name)
     IN Deliver(t, stack[t],
                [call |-> c, out |-> Ret(messages),
                 pre |-> [registered |-> c.agent_name \in agents,
                          again |-> drained[c.agent_name],
                          pending |-> pending[c.agent_name]]])
  /\ message_queue' = ClearQueue(message_queue, c.agent_name)
  /\ drained' = [drained EXCEPT ![c.agent_name] =
                    IF c.agent_name \in DOMAIN message_queue
                       /\ message_queue[c.agent_name] # <<>>
                    THEN "full" ELSE "empty"]
  /\ pending' = [pending EXCEPT ![c.agent_name] = <<>>]
  /\ delivered' = [delivered EXCEPT ![c.agent_name] =
                      @ \o Ids(Drain(message_queue, c.agent_name))]
  /\ UNCHANGED <<agents, tools, lock, nextId, runs, lastReg, replaced, accepted,
                 text, fs, now,
                 owners, faults>>

\* faulty variant of unregister_agent: the agent's qualified tool keys go too
Mut_unregister_agent(t, c) ==
  /\ c.op = "unregister_agent"
  /\ lock = NoThread
  /\ agents' = agents \ {c.agent_name}
  /\ message_queue' = [a \in DOMAIN message_queue \ {c.agent_name} |->
                         message_queue[a]]
  /\ tools' = [k \in {x \in DOMAIN tools :
                        \A n \in AgentHandlers \cup {"t"} :
                          x # ToolKey(c.agent_name, n)} |-> tools[k]]
  /\ pending' = [pending EXCEPT ![c.agent_name] = <<>>]
  /\ accepted' = [accepted EXCEPT ![c.agent_name] = <<>>]
  /\ delivered' = [delivered EXCEPT ![c.agent_name] = <<>>]
  /\ Deliver(t, stack[t],
             [call |-> c, out |-> Ret(PyNone),
              pre |-> [registered |-> c.agent_name \in agents,
                       pending |-> pending[c.agent_name]]])
  /\ UNCHANGED <<lock, nextId, runs, drained, lastReg, replaced, text, fs, now,
                 owners, faults>>

\* MCPServer.unregister_agent
unregister_agent(t, c) ==
  /\ c.op = "unregister_agent"
  /\ lock = NoThread
  /\ agents' = agents \ {c.agent_name}
  /\ message_queue' = [a \in DOMAIN message_queue \ {c.agent_name} |->
                         message_queue[a]]
  /\ pending' = [pending EXCEPT ![c.agent_name] = <<>>]
  /\ accepted' = [accepted EXCEPT ![c.agent_name] = <<>>]
  /\ delivered' = [delivered EXCEPT ![c.agent_name] = <<>>]
  /\ Deliver(t, stack[t],
             [call |-> c, out |-> Ret(PyNone),
              pre |-> [registered |-> c.agent_name \in agents,
                       pending |-> pending[c.agent_name]]])
  /\ UNCHANGED <<tools, lock, nextId, runs, drained, lastReg, replaced, text, fs, now,
                 owners, faults>>

(***************************************************************************)
(* The tool handler running inside _handle_request, under the lock         *)
(***************************************************************************)
InHandler(t) == stack[t] # <<>> /\ Top(stack[t]).fn = "send_message"

\* the calls a re-entering handler of agent request.to_agent makes back into
\* the server through its MCPClient
NestedCalls(request, id) ==
  { [op |-> "send_message", via |-> "call_agent",
     message |-> MCPRequest(id, request.to_agent, request.from_agent,
                            request.tool, <<>>)],
    [op |-> "register_tool",
     tool_name |-> ToolKey(request.to_agent, request.tool),
     tool_function |-> "h1"],
    [op |-> "get_messages", agent_name |-> request.to_agent] }

\* a re-entering handler reaches its call into the server
HandlerCallsBack(t) ==
  /\ InHandler(t)
  /\ Top(stack[t]).h = "h_reenter"
  /\ Top(stack[t]).hpc = "run"
  /\ \E n \in NestedCalls(Top(stack[t]).call.message, nextId) :
       stack' = [stack EXCEPT ![t] =
                   Append(Pop(@), [Top(@) EXCEPT !.hpc = "nested", !.nested = n])]
  /\ UNCHANGED <<agents, tools, message_queue, lock, nextId, runs, obs,
                 drained, pending, lastReg, replaced, accepted, delivered, text, fs, now,
                 owners, faults>>

\* faulty variant of FinishRequest: the lock stays held after the handler
Mut_FinishRequest(t, hout, llm) ==
  LET f == Top(stack[t])
      r == Handled(f.call.via, HandleResult(f.call.message, hout))
  IN /\ lock' = lock
     /\ Deliver(t, Pop(stack[t]),
                [call |-> f.call, pre |-> f.pre, resp |-> r.resp,
                 inv |-> [invoked |-> TRUE, key |-> f.key, h |-> f.h,
                          latest |-> f.latest, replaced |-> f.replaced,
                          hout |-> hout, llm |-> llm],
                 out |-> r.out])
     /\ UNCHANGED <<agents, tools, message_queue, nextId, runs,
                    drained, pending, lastReg, replaced, accepted, delivered, text, fs, now,
                 owners, faults>>

\* _handle_request, lines 107-129, and the end of send_message: the handler
\* returned or raised (hout), the response is built, the lock released
FinishRequest(t, hout, llm) ==
  LET f == Top(stack[t])
      r == Handled(f.call.via, HandleResult(f.call.message, hout))
  IN /\ lock' = NoThread
     /\ Deliver(t, Pop(stack[t]),
                [call |-> f.call, pre |-> f.pre, resp |-> r.resp,
                 inv |-> [invoked |-> TRUE, key |-> f.key, h |-> f.h,
                          latest |-> f.latest, replaced |-> f.replaced,
                          hout |-> hout, llm |-> llm],
                 out |-> r.out])
     /\ UNCHANGED <<agents, tools, message_queue, nextId, runs,
                    drained, pending, lastReg, replaced, accepted, delivered, text, fs, now,
                 owners, faults>>

\* a registered callable finishes
HandlerFinish(t) ==
  /\ InHandler(t)
  /\ LET f == Top(stack[t]) IN
     /\ \/ f.h \in {"h1", "h_plan", "h_raise", "h_exit"} /\ f.hpc = "run"
        \/ f.h = "h_reenter" /\ f.hpc = "resumed"
     /\ FinishRequest(t, StubOutcome(f.h, f.nres), "none")

\* an agent's tool method finishes: its LLM call succeeded or failed
AgentHandlerFinish(t) ==
  /\ InHandler(t)
  /\ LET f == Top(stack[t]) IN
     /\ f.h \in AgentHandlers
     /\ f.hpc = "run"
     /\ \E llm \in LLMOutcomes :
          FinishRequest(t, AgentOutcome(f.h, llm), LLMUse(f.h, llm))

\* OrchestratorAgent.process is called (api/main.py, generate_software)
ProcessStart(t, input_data) ==
  /\ stack[t] = <<>>
  /\ runs < MaxRuns
  /\ runs' = runs + 1
  /\ stack' = [stack EXCEPT ![t] = <<ProcessFrame(input_data)>>]
  /\ UNCHANGED <<agents, tools, message_queue, lock, nextId, obs,
                 drained, pending, lastReg, replaced, accepted, delivered, text, fs, now,
                 owners, faults>>

(***************************************************************************)
(* Specification of the dispatch server: threads of a program that uses    *)
(* one MCPServer with agents a, b and a tool t                             *)
(***************************************************************************)
SrvAgents == {"a", "b"}
SrvTool == "t"
SrvSender == "a"
AllAgents == SrvAgents \cup PipeAgents

SrvCalls ==
  {[op |-> "register_agent", agent_name |-> a] : a \in SrvAgents}
  \cup {[op |-> "unregister_agent", agent_name |-> a] : a \in SrvAgents}
  \cup {[op |-> "get_messages", agent_name |-> a] : a \in SrvAgents}
  \cup {[op |-> "register_tool", tool_name |-> ToolKey("a", SrvTool),
          tool_function |-> h] : h \in StubHandlers}
  \cup {[op |-> "register_tool", tool_name |-> SrvTool, tool_function |-> "h1"]}
  \cup IF nextId <= MaxMsgs
       THEN {[op |-> "send_message", via |-> v,
              message |-> MCPRequest(nextId, SrvSender, to, SrvTool, <<>>)] :
               v \in {"direct", "call_agent"}, to \in SrvAgents}
            \cup {[op |-> "send_message", via |-> "direct",
                   message |-> MCPNotification(nextId, SrvSender, to)] :
                    to \in SrvAgents}
       ELSE {}

NoObs == [call |-> [op |-> "none"]]

\* MCPServer.__init__
Init ==
  /\ agents = {}
  /\ tools = <<>>
  /\ message_queue = <<>>
  /\ lock = NoThread
  /\ stack = [t \in Threads |-> <<>>]
  /\ nextId = 1
  /\ runs = 0
  /\ obs = NoObs
  /\ drained = [a \in AllAgents |-> "no"]
  /\ pending = [a \in AllAgents |-> <<>>]
  /\ lastReg = <<>>
  /\ replaced = {}
  /\ accepted = [a \in AllAgents |-> <<>>]
  /\ delivered = [a \in AllAgents |-> <<>>]
  /\ text = <<>>
  /\ fs = <<>>
  /\ now = 0
  /\ owners = <<>>
  /\ faults = 0

Next ==
  \/ \E t \in Threads : \E c \in Calls(t, SrvCalls) : register_agent(t, c)
  \/ \E t \in Threads : \E c \in Calls(t, SrvCalls) : register_tool(t, c)
  \/ \E t \in Threads : \E c \in Calls(t, SrvCalls) : send_message(t, c)
  \/ \E t \in Threads : \E c \in Calls(t, SrvCalls) : get_messages(t, c)
  \/ \E t \in Threads : \E c \in Calls(t, SrvCalls) : unregister_agent(t, c)
  \/ \E t \in Threads : HandlerCallsBack(t)
  \/ \E t \in Threads : HandlerFinish(t)

Spec == Init /\ [][Next]_vars

(***************************************************************************)
(* Specification of the pipeline: the server as OrchestratorAgent's        *)
(* constructor leaves it, process() runs, and the program may replace a    *)
(* step's tool by a callable of its own or unregister the code generator   *)
(***************************************************************************)
PipeInputs == {[description |-> Txt("a todo app"), requirements |-> EmptyStr]}
PipeCalls ==
  {[op |-> "register_tool", tool_name |-> k, tool_function |-> "h1"] :
     k \in DOMAIN PipeTools \ {ToolKey("test_generator", "generate_tests")}}
  \cup {[op |-> "register_tool",
          tool_name |-> ToolKey("api_route_planner", "plan_api_routes"),
          tool_function |-> "h_plan"]}
  \cup {[op |-> "unregister_agent", agent_name |-> "code_generator"]}

\* OrchestratorAgent.__init__: seven agents registered, six tools
InitPipeline ==
  /\ agents = PipeAgents
  /\ tools = PipeTools
  /\ message_queue = [a \in PipeAgents |-> <<>>]
  /\ lock = NoThread
  /\ stack = [t \in Threads |-> <<>>]
  /\ nextId = 1
  /\ runs = 0
  /\ obs = NoObs
  /\ drained = [a \in AllAgents |-> "no"]
  /\ pending = [a \in AllAgents |-> <<>>]
  /\ lastReg = PipeTools
  /\ replaced = {}
  /\ accepted = [a \in AllAgents |-> <<>>]
  /\ delivered = [a \in AllAgents |-> <<>>]
  /\ text = <<>>
  /\ fs = <<>>
  /\ now = 0
  /\ owners = <<>>
  /\ faults = 0

NextPipeline ==
  \/ \E t \in Threads : \E x \in PipeInputs : ProcessStart(t, x)
  \/ \E t \in Threads : \E c \in Calls(t, PipeCalls) : send_message(t, c)
  \/ \E t \in Threads : \E c \in Calls(t, PipeCalls) : register_tool(t, c)
  \/ \E t \in Threads : \E c \in Calls(t, PipeCalls) : unregister_agent(t, c)
  \/ \E t \in Threads : HandlerFinish(t)
  \/ \E t \in Threads : AgentHandlerFinish(t)

SpecPipeline == InitPipeline /\ [][NextPipeline]_vars

(***************************************************************************)
(* Specification of message construction: a program builds MCPRequest and  *)
(* MCPResponse objects from keyword arguments and sends the requests it    *)
(* got to a server with agents a, b and the tool "a.t"                     *)
(***************************************************************************)
MessageClasses == {"MCPRequest", "MCPResponse"}
MessageKwargs ==
  [message_id : {nextId}, from_agent : {SrvSender},
   to_agent : {Missing, Msg("a"), Msg("b")},
   tool : {Missing, PyNone, Msg(""), Msg(SrvTool)},
   correlation_id : {Missing, PyNone, Id(1)}]

\* a constructor call: the object, or pydantic's ValidationError
Construct(t, cls, kw) ==
  /\ stack[t] = <<>>
  /\ obs' = [call |-> [op |-> "construct", cls |-> cls, kwargs |-> kw],
             out |-> NewMessage(cls, kw)]
  /\ UNCHANGED <<agents, tools, message_queue, lock, stack, nextId, runs,
                 drained, pending, lastReg, replaced, accepted, delivered, text, fs, now,
                 owners, faults>>

\* the program sends the request it has just built
MessageCalls ==
  IF /\ obs.call.op = "construct"
     /\ obs.call.cls = "MCPRequest"
     /\ obs.out.kind = "return"
     /\ nextId <= MaxMsgs
  THEN {[op |-> "send_message", via |-> "direct", message |-> obs.out.val]}
  ELSE {}

InitMessages ==
  /\ agents = SrvAgents
  /\ tools = (ToolKey("a", SrvTool) :> "h1")
  /\ message_queue = [a \in SrvAgents |-> <<>>]
  /\ lock = NoThread
  /\ stack = [t \in Threads |-> <<>>]
  /\ nextId = 1
  /\ runs = 0
  /\ obs = NoObs
  /\ drained = [a \in AllAgents |-> "no"]
  /\ pending = [a \in AllAgents |-> <<>>]
  /\ lastReg = (ToolKey("a", SrvTool) :> "h1")
  /\ replaced = {}
  /\ accepted = [a \in AllAgents |-> <<>>]
  /\ delivered = [a \in AllAgents |-> <<>>]
  /\ text = <<>>
  /\ fs = <<>>
  /\ now = 0
  /\ owners = <<>>
  /\ faults = 0

NextMessages ==
  \/ \E t \in Threads : \E cls \in MessageClasses : \E kw \in MessageKwargs :
       Construct(t, cls, kw)
  \/ \E t \in Threads : \E c \in Calls(t, MessageCalls) : send_message(t, c)
  \/ \E t \in Threads : HandlerFinish(t)

SpecMessages == InitMessages /\ [][NextMessages]_vars

(***************************************************************************)
(* Specification of the extraction functions: an LLM output is drawn and   *)
(* the agents' extraction methods are applied to it                        *)
(***************************************************************************)
Seqs(A, n) == UNION {[1..k -> A] : k \in 0..n}

\* outputs for the schema extraction
SqlTokens == {FENCE, NL, "sql", "CREATE TABLE", "create table", ";", "x"}
\* longer outputs: statements around a sql block, statements in both
\* cases without a block, and prose
SqlSamples ==
  { <<"create table", "x", ";", NL, FENCE, "sql", NL, "CREATE TABLE", "x", ";",
      NL, FENCE>>,
    <<"x", NL, "CREATE TABLE", "x", ";", NL, "x", NL, "create table", "x", ";",
      NL, "x">>,
    <<NL, "x", SP, "x", NL>> }
SqlTexts == Seqs(SqlTokens, MaxLen) \cup SqlSamples

\* outputs for the route plan extraction: a JSON-like document, bare or in a
\* json fence
JsonTokens == {"{", "}", "[", "]", ":", "\"api_route_plan\"", "\"routes\"",
               "null"}
Docs == Seqs(JsonTokens, MaxDoc)
JsonFence(d) == <<FENCE, "json", NL>> \o d \o <<NL, FENCE>>
\* longer outputs: two json blocks, one an object with the key api_route_plan,
\* the other an object with routes only, in both orders
PlanSamples ==
  LET plan == <<"{", "\"api_route_plan\"", ":", "[", "]", "}">>
      routes == <<"{", "\"routes\"", ":", "null", "}">>
  IN { JsonFence(plan) \o <<NL>> \o JsonFence(routes),
       JsonFence(routes) \o <<NL>> \o JsonFence(plan) }
PlanTexts == Docs \cup {JsonFence(d) : d \in Docs} \cup PlanSamples

\* DatabaseAgent.process, line 83
ExtractSql ==
  /\ obs' = [call |-> [op |-> "_extract_sql_schema"],
             out |-> Ret(Str(extract_sql_schema(text)))]
  /\ UNCHANGED <<agents, tools, message_queue, lock, stack, nextId, runs,
                 drained, pending, lastReg, replaced, accepted, delivered, text, fs, now,
                 owners, faults>>

\* APIRoutePlannerAgent.process, line 136
ExtractPlan ==
  /\ obs' = [call |-> [op |-> "_extract_api_route_plan"],
             out |-> extract_api_route_plan(text)]
  /\ UNCHANGED <<agents, tools, message_queue, lock, stack, nextId, runs,
                 drained, pending, lastReg, replaced, accepted, delivered, text, fs, now,
                 owners, faults>>

\* outputs for the code generator: code followed by a requirements block
\* under each tag, closed on a line of its own or not, and a txt block that
\* mentions requirements
CodeSamples ==
  {<<"code", NL, FENCE, tag, NL, "fastapi", NL, FENCE>> :
     tag \in RequirementsTags}
  \cup {<<"code", NL, FENCE, "txt:requirements.txt", NL, "fastapi", FENCE>>,
        <<"code", NL, FENCE, "txt", NL, "requirements", NL, "fastapi", NL, FENCE>>,
        <<"code", NL, FENCE, "python", NL, "x", NL, FENCE>>}

\* CodeGeneratorAgent.process, lines 68-79, on the output of the LLM call
ExtractCode ==
  /\ obs' = [call |-> [op |-> "code_generator.process"],
             out |-> AgentResult("generate_code", text)]
  /\ UNCHANGED <<agents, tools, message_queue, lock, stack, nextId, runs,
                 drained, pending, lastReg, replaced, accepted, delivered, text, fs, now,
                 owners, faults>>

InitExtract ==
  /\ agents = {}
  /\ tools = <<>>
  /\ message_queue = <<>>
  /\ lock = NoThread
  /\ stack = [t \in Threads |-> <<>>]
  /\ nextId = 1
  /\ runs = 0
  /\ obs = NoObs
  /\ drained = [a \in AllAgents |-> "no"]
  /\ pending = [a \in AllAgents |-> <<>>]
  /\ lastReg = <<>>
  /\ replaced = {}
  /\ accepted = [a \in AllAgents |-> <<>>]
  /\ delivered = [a \in AllAgents |-> <<>>]
  /\ text \in SqlTexts \cup PlanTexts \cup CodeSamples
  /\ fs = <<>>
  /\ now = 0
  /\ owners = <<>>
  /\ faults = 0

NextExtract ==
  \/ ExtractSql
  \/ ExtractPlan
  \/ ExtractCode

SpecExtract == InitExtract /\ [][NextExtract]_vars

(***************************************************************************)
(* utils/file_generator.py: FileGenerator.  A project name is a sequence   *)
(* of characters, a path a sequence of components, a file's content a str  *)
(***************************************************************************)
\* the characters \w matches, among those of the names below
WordChars == {"a", "b", "_", "1"}
Min(a, b) == IF a <= b THEN a ELSE b

\* re.sub(r'[^\w\s-]', '', project_name)
DropSpecial(name) ==
  SelectSeq(name, LAMBDA c : c \in WordChars \/ IsSpace(c) \/ c = "-")

\* re.sub(r'[-\s]+', '-', project_name): every run of hyphens and whitespace
\* becomes one hyphen
RECURSIVE Hyphenate(_)
Hyphenate(name) ==
  IF name = <<>> THEN <<>>
  ELSE IF IsSpace(Head(name)) \/ Head(name) = "-"
       THEN LET other == {i \in 1..Len(name) :
                            ~(IsSpace(name[i]) \/ name[i] = "-")}
                rest == IF other = {} THEN <<>>
                        ELSE SubSeq(name, MinOf(other), Len(name))
            IN <<"-">> \o Hyphenate(rest)
       ELSE <<Head(name)>> \o Hyphenate(Tail(name))

\* project_name[:50]
NameLimit == 50

\* datetime.now() counts in ticks finer than the second that
\* strftime("%Y%m%d_%H%M%S") keeps
TicksPerSecond == 2
Timestamp(clock) == ToString(clock \div TicksPerSecond)

\* faulty variant of FolderName: the name is kept as given
Mut_FolderName(project_name, clock) ==
  (IF project_name.t = "str" /\ project_name.v # <<>>
   THEN project_name.v
   ELSE <<"p", "r", "o", "j", "e", "c", "t">>)
  \o <<"_", Timestamp(clock)>>

\* FileGenerator.create_project_folder, lines 46-56: the folder's name
FolderName(project_name, clock) ==
  (IF project_name.t = "str" /\ project_name.v # <<>>
   THEN LET clean == Hyphenate(DropSpecial(project_name.v))
        IN SubSeq(clean, 1, Min(NameLimit, Len(clean)))
   ELSE <<"p", "r", "o", "j", "e", "c", "t">>)
  \o <<"_", Timestamp(clock)>>

\* the tokens in which the pattern CREATE matches, case ignored
MentionsCreate(tok) == tok \in {"CREATE", "create"} \cup CreateTable

\* re.search(r'```\s*\n(.*?CREATE.*?)\n```', content, DOTALL | IGNORECASE):
\* the group runs from the opening line to the first newline-and-fence that
\* follows the first mention of CREATE
CreateBlockSearch(content) ==
  LET At(i) ==
        LET Close(q) ==
              {k \in (q + 1)..(Len(content) - 1) :
                 /\ content[k] = NL /\ content[k + 1] = FENCE
                 /\ \E c \in (q + 1)..(k - 1) : MentionsCreate(content[c])}
            good == {q \in (i + 1)..SpaceEnd(content, i + 1) :
                       content[q] = NL /\ Close(q) # {}}
        IN IF content[i] = FENCE /\ good # {}
           THEN LET q == MaxOf(good)
                IN [ok |-> TRUE,
                    group |-> SubSeq(content, q + 1, MinOf(Close(q)) - 1)]
           ELSE NoMatch
      hits == {i \in 1..Len(content) : At(i).ok}
  IN IF hits = {} THEN NoMatch ELSE At(MinOf(hits))

\* FileGenerator._extract_sql_from_schema, lines 241-254
extract_sql_from_schema(content) ==
  LET sql == FencedSearch(content, 1, {"sql"}, FALSE)
      block == CreateBlockSearch(content)
  IN IF sql.ok THEN Strip(sql.group)
     ELSE IF block.ok THEN Strip(block.group)
          ELSE Strip(content)

\* FileGenerator._extract_code_from_markdown, lines 490-503
extract_code_from_markdown(content) ==
  LET python == FencedSearch(content, 1, {"python"}, FALSE)
      block == FencedSearch(content, 1, {""}, FALSE)
  IN IF python.ok THEN Strip(python.group)
     ELSE IF block.ok THEN Strip(block.group)
          ELSE Strip(content)

\* len() of a str: the characters of each token
TokLen(tok) ==
  CASE tok \in {NL, SP, "/", "x", ";", "a", "b", "_", "1", "-", "!", "{", "}",
                "[", "]", ":", ",", "\""} -> 1
    [] tok \in {"..", "on"} -> 2
    [] tok \in {FENCE, "src", "sql"} -> 3
    [] tok \in {"jsx:", "a.js", "docs"} -> 4
    [] tok \in {"json:", "tests"} -> 5
    [] tok \in {"public", "python"} -> 6
    [] tok \in {"App.jsx", "evil.js"} -> 7
    [] tok \in {"frontend", "notes.md"} -> 8
    [] tok = "package.json" -> 12
    [] tok = "tsconfig.json" -> 13
    [] tok = "export default App" -> 18
    [] tok = "api_route_plan.json" -> 19
    [] OTHER -> 10
RECURSIVE CharLen(_)
CharLen(s) == IF s = <<>> THEN 0 ELSE TokLen(Head(s)) + CharLen(Tail(s))

\* the language tags of file_pattern, with the colon
FrontendTags == {"jsx:", "json:"}

\* a match of file_pattern, line 333, that starts at index i: the fence, a
\* tag, at least one token up to the end of the line, and the content up to
\* the next fence
FileBlockAt(s, i) ==
  LET nls == {n \in (i + 3)..Len(s) : s[n] = NL}
      n == MinOf(nls)
      closes == {k \in (n + 1)..Len(s) : s[k] = FENCE}
  IN IF /\ i + 2 <= Len(s) /\ s[i] = FENCE /\ s[i + 1] \in FrontendTags
        /\ s[i + 2] # NL /\ nls # {} /\ closes # {}
     THEN [ok |-> TRUE, filepath |-> SubSeq(s, i + 2, n - 1),
           content |-> SubSeq(s, n + 1, MinOf(closes) - 1),
           end |-> MinOf(closes)]
     ELSE NoMatch

\* re.findall(file_pattern, frontend_code, re.DOTALL)
RECURSIVE FileBlocks(_, _)
FileBlocks(s, from) ==
  LET hits == {i \in from..Len(s) : FileBlockAt(s, i).ok}
  IN IF hits = {} THEN <<>>
     ELSE LET m == FileBlockAt(s, MinOf(hits))
          IN <<m>> \o FileBlocks(s, m.end + 1)

\* filepath.lstrip('/')
LStripSlash(path) ==
  LET other == {i \in 1..Len(path) : path[i] # "/"}
  IN IF other = {} THEN <<>> ELSE SubSeq(path, MinOf(other), Len(path))

\* filepath.replace('frontend/', '')
RECURSIVE DropFrontend(_)
DropFrontend(path) ==
  IF path = <<>> THEN <<>>
  ELSE IF Len(path) >= 2 /\ path[1] = "frontend" /\ path[2] = "/"
       THEN DropFrontend(SubSeq(path, 3, Len(path)))
       ELSE <<Head(path)>> \o DropFrontend(Tail(path))

\* the extension a token ends with, among valid_extensions ("" if none)
ValidExtension(tok) ==
  CASE tok \in {"App.jsx"} -> ".jsx"
    [] tok \in {"a.js", "evil.js"} -> ".js"
    [] tok \in {"package.json", "tsconfig.json", "api_route_plan.json"} -> ".json"
    [] OTHER -> ""

KnownConfig == {<<"package.json">>, <<"tsconfig.json">>}
StartsWith(path, prefix) ==
  Len(path) >= Len(prefix) /\ SubSeq(path, 1, Len(prefix)) = prefix

Skip == [skip |-> TRUE]

\* FileGenerator.save_frontend, lines 338-382: the file one match is saved
\* as, relative to frontend/, or Skip.  (The test against common_words is
\* left out: none of them has a valid extension, so line 364 skips them.)
FrontendFile(match) ==
  LET given == Strip(match.filepath)
      content == Strip(match.content)
      named == IF given = <<>> THEN <<"src", "/", "App.jsx">> ELSE given
      filepath == Strip(DropFrontend(LStripSlash(named)))
      has_valid_extension ==
        filepath # <<>> /\ ValidExtension(filepath[Len(filepath)]) # ""
      is_known_config == filepath \in KnownConfig
      placed ==
        IF filepath \in KnownConfig THEN filepath
        ELSE IF /\ ~StartsWith(filepath, <<"public", "/">>)
                /\ ~StartsWith(filepath, <<"src", "/">>)
             THEN IF /\ \A i \in 1..Len(filepath) : filepath[i] # "/"
                     /\ ValidExtension(filepath[Len(filepath)]) = ".json"
                  THEN filepath
                  ELSE <<"src", "/">> \o filepath
             ELSE filepath
  IN IF content = <<>> \/ CharLen(content) < 10 THEN Skip
     ELSE IF ~(has_valid_extension \/ is_known_config) THEN Skip
     ELSE IF CharLen(filepath) < 5 /\ filepath \notin KnownConfig THEN Skip
     ELSE [skip |-> FALSE, filepath |-> placed, content |-> content]

\* the files save_frontend writes, in order, relative to frontend/: the
\* matches that are not skipped, or src/App.jsx when nothing matches
FrontendFiles(frontend_code) ==
  LET matches == FileBlocks(frontend_code, 1)
      files == [n \in DOMAIN matches |-> FrontendFile(matches[n])]
  IN IF matches # <<>>
     THEN SelectSeq(files, LAMBDA f : ~f.skip)
     ELSE <<[skip |-> FALSE, filepath |-> <<"src", "/", "App.jsx">>,
             content |-> extract_code_from_markdown(frontend_code)]>>

\* bool(x) of a Python value
Truth(x) ==
  CASE x.t = "none" -> FALSE
    [] x.t = "str" -> x.v # <<>>
    [] x.t = "list" -> x.v # <<>>
    [] x.t = "dict" -> DOMAIN x.d # {}

\* json.encoder: a double quote, a backslash and a control character of a
\* str are written escaped, alone or inside a word
EscapeTok(tok) ==
  CASE tok = NL -> "\\n"
    [] tok = "a\"b" -> "a\\\"b"
    [] tok = "\t" -> "\\t"
    [] tok = "\"" -> "\\\""
    [] tok = "\\" -> "\\\\"
    [] tok \in StringTokens -> "\\\"" \o Unquote(tok) \o "\\\""
    [] OTHER -> tok

Indent(level) == [n \in 1..(2 * level) |-> SP]

\* json.dump(value, f, indent=2, ensure_ascii=False): the text written
RECURSIVE json_dump(_, _)
json_dump(x, level) ==
  CASE x.t = "none" -> <<"null">>
    [] x.t = "str" ->
         <<"\"">> \o [n \in DOMAIN x.v |-> EscapeTok(x.v[n])] \o <<"\"">>
    [] x.t = "list" ->
         IF x.v = <<>> THEN <<"[", "]">>
         ELSE <<"[", NL>>
              \o Join([n \in DOMAIN x.v |->
                         Indent(level + 1) \o json_dump(x.v[n], level + 1)],
                      <<",", NL>>)
              \o <<NL>> \o Indent(level) \o <<"]">>
    [] x.t = "dict" ->
         IF DOMAIN x.d = {} THEN <<"{", "}">>
         ELSE LET keys == x.ko
              IN <<"{", NL>>
                 \o Join([n \in DOMAIN keys |->
                            Indent(level + 1)
                            \o <<"\"" \o keys[n] \o "\"", ":", SP>>
                            \o json_dump(x.d[keys[n]], level + 1)],
                         <<",", NL>>)
                 \o <<NL>> \o Indent(level) \o <<"}">>

\* FileGenerator.save_readme, lines 135-180: the template around the
\* description and the requirements, its fixed parts as one token each
readme_content(description, requirements) ==
  <<"# Generated Project", NL, NL, "## Description", NL>> \o description
  \o <<NL, NL, "## Requirements", NL>>
  \o (IF requirements # <<>> THEN requirements ELSE <<"None specified">>)
  \o <<NL, NL, "## Generated Files ... ## Testing", NL>>

\* FileGenerator.save_requirements, lines 197-198
requirements_content(requirements_txt) ==
  IF Truth(requirements_txt) THEN requirements_txt.v ELSE DefaultRequirements

(***************************************************************************)
(* The file system under base_output_dir: path -> directory or file with   *)
(* its content.  A path is a sequence of tokens, "/" between components;   *)
(* the paths of the model do not climb out of base_output_dir              *)
(***************************************************************************)
IsDir == [t |-> "dir"]
IsFile(content) == [t |-> "file", v |-> content]

\* the components of a path, empty ones dropped
RECURSIVE Components(_)
Components(path) ==
  LET p == LStripSlash(path)
      slashes == {i \in 1..Len(p) : p[i] = "/"}
  IN IF p = <<>> THEN <<>>
     ELSE IF slashes = {} THEN <<p>>
          ELSE <<SubSeq(p, 1, MinOf(slashes) - 1)>>
               \o Components(SubSeq(p, MinOf(slashes), Len(p)))

\* name resolution: ".." leaves the directory reached so far
RECURSIVE Resolve(_, _)
Resolve(done, comps) ==
  IF comps = <<>> THEN done
  ELSE IF Head(comps) = <<"..">>
       THEN Resolve(SubSeq(done, 1, Len(done) - 1), Tail(comps))
       ELSE Resolve(Append(done, Head(comps)), Tail(comps))

\* os.path.join
PathJoin(a, b) == a \o <<"/">> \o b

\* the path as the file system resolves it
Normal(path) == Join(Resolve(<<>>, Components(path)), <<"/">>)

OSError(cls) == Exc(cls, <<>>)
Front(seq) == SubSeq(seq, 1, Len(seq) - 1)

\* the directory the components name, followed one by one as the system
\* follows them: each must be there and be a directory, ".." leaves it
RECURSIVE Walk(_, _, _)
Walk(disk, done, comps) ==
  IF comps = <<>> THEN [err |-> "", at |-> done]
  ELSE IF Head(comps) = <<"..">>
       THEN Walk(disk, Front(done), Tail(comps))
       ELSE LET at == Join(Append(done, Head(comps)), <<"/">>)
            IN IF at \notin DOMAIN disk
               THEN [err |-> "FileNotFoundError", at |-> done]
               ELSE IF disk[at] # IsDir
                    THEN [err |-> "NotADirectoryError", at |-> done]
                    ELSE Walk(disk, Append(done, Head(comps)), Tail(comps))

\* Path.is_dir()
is_dir(disk, comps) == Walk(disk, <<>>, comps).err = ""

\* os.mkdir(path): the parent must resolve to a directory and the name must
\* be free; made is the directory created, if any
os_mkdir(disk, comps) ==
  LET In(parent, name) ==
        IF parent.err # ""
        THEN [disk |-> disk, err |-> parent.err, made |-> <<>>]
        ELSE LET at == Join(Append(parent.at, name), <<"/">>)
             IN IF name = <<"..">> \/ at \in DOMAIN disk
                THEN [disk |-> disk, err |-> "FileExistsError", made |-> <<>>]
                ELSE [disk |-> disk @@ (at :> IsDir), err |-> "",
                      made |-> <<at>>]
  IN IF comps = <<>>
     THEN [disk |-> disk, err |-> "FileExistsError", made |-> <<>>]
     ELSE In(Walk(disk, <<>>, Front(comps)), comps[Len(comps)])

\* pathlib.Path.mkdir after os.mkdir gave r: an error is passed over when
\* the path is a directory (exist_ok=True). calls holds, for each os.mkdir
\* called, the number of directories made before it
Made(before, calls, comps, r, retry) ==
  IF r.err = "" \/ (is_dir(r.disk, comps) /\ ~(retry /\ r.err = "FileNotFoundError"))
  THEN [disk |-> r.disk, out |-> Ret(PyNone), made |-> before \o r.made,
        calls |-> calls]
  ELSE [disk |-> r.disk, out |-> OSError(r.err), made |-> before,
        calls |-> calls]

\* Path(dir).mkdir(parents=True, exist_ok=True), pathlib.py: os.mkdir of the
\* path; when a component is missing, the same for the parent (the path
\* without its last component, ".." kept) and os.mkdir of the path again.
\* made lists the directories created, in order, and calls the os.mkdir
\* calls, in order
RECURSIVE PathMkdir(_, _)
PathMkdir(disk, comps) ==
  LET First(r) ==
        IF r.err = "FileNotFoundError" /\ comps # <<>>
        THEN LET Again(p) ==
                   IF p.out.kind = "raise"
                   THEN [p EXCEPT !.calls = <<0>> \o @]
                   ELSE Made(p.made, <<0>> \o p.calls \o <<Len(p.made)>>,
                             comps, os_mkdir(p.disk, comps), TRUE)
             IN Again(PathMkdir(disk, Front(comps)))
        ELSE Made(<<>>, <<0>>, comps, r, FALSE)
  IN First(os_mkdir(disk, comps))

Outcome(r) == [disk |-> r.disk, out |-> r.out]
Mkdir(disk, dir) == Outcome(PathMkdir(disk, Components(dir)))

\* the disk with the first k of the directories made
Stage(disk, made, k) ==
  disk @@ [at \in {made[n] : n \in 1..k} |-> IsDir]

\* open(path, 'w') and f.write(content): the file is made or replaced
WriteFile(disk, path, content) ==
  LET In(parent, name) ==
        IF parent.err # ""
        THEN [disk |-> disk, out |-> OSError(parent.err)]
        ELSE LET at == Join(Append(parent.at, name), <<"/">>)
             IN IF name = <<"..">> \/ (at \in DOMAIN disk /\ disk[at] = IsDir)
                THEN [disk |-> disk, out |-> OSError("IsADirectoryError")]
                ELSE [disk |-> [q \in DOMAIN disk \cup {at} |->
                                  IF q = at THEN IsFile(content) ELSE disk[q]],
                      out |-> Ret(PyNone)]
      Open(comps) == In(Walk(disk, <<>>, Front(comps)), comps[Len(comps)])
  IN Open(Components(path))

\* os.path.dirname: the path up to its last slash, without the slashes at
\* its end unless it is made of slashes only
Dirname(path) ==
  LET slashes == {i \in 1..Len(path) : path[i] = "/"}
      Stripped(head) ==
        LET names == {i \in 1..Len(head) : head[i] # "/"}
        IN IF names = {} THEN head ELSE SubSeq(head, 1, MaxOf(names))
  IN IF slashes = {} THEN <<>> ELSE Stripped(SubSeq(path, 1, MaxOf(slashes)))

(***************************************************************************)
(* FileGenerator.generate_project as steps of the thread that runs it: one *)
(* step for create_project_folder and one for each save                    *)
(***************************************************************************)
File(artifact, mkdir, path, content) ==
  [artifact |-> artifact, mkdir |-> mkdir, path |-> path, content |-> content]
NoDir == <<>>
NoFile == <<>>

\* save_frontend, lines 324-325 and 384-397 (404-409 for the fallback): the
\* directory frontend/ is made, then each file's directory and the file
FrontendSaves(frontend_path, files) ==
  <<File("frontend_code", frontend_path, NoFile, <<>>)>>
  \o [n \in DOMAIN files |->
        File("frontend_code",
             Dirname(PathJoin(frontend_path, files[n].filepath)),
             PathJoin(frontend_path, files[n].filepath), files[n].content)]

\* save_frontend, lines 399-401 and 410: files_saved, from the path relative
\* to frontend/ to the full path
FilesSaved(frontend_path, files) ==
  LET paths == [n \in DOMAIN files |-> files[n].filepath]
      first == {n \in DOMAIN files :
                  \A m \in 1..(n - 1) : paths[m] # paths[n]}
      Nth(k) == CHOOSE n \in first : Cardinality({m \in first : m <= n}) = k
  IN DictOf([k \in 1..Cardinality(first) |-> paths[Nth(k)]],
            [filepath \in {files[n].filepath : n \in DOMAIN files} |->
               Str(PathJoin(frontend_path, filepath))])

\* generate_project, lines 451-476: the saves it makes for the keyword
\* arguments kw in the folder project_path, in order
Saves(kw, project_path) ==
  LET In(name) == PathJoin(project_path, name)
  IN << File("architecture", NoDir, In(<<"ARCHITECTURE.md">>), kw.architecture.v),
        File("database_schema", In(<<"database">>),
             In(<<"database", "/", "schema.sql">>),
             extract_sql_from_schema(kw.database_schema.v)),
        File("code", NoDir, In(<<"main.py">>),
             extract_code_from_markdown(kw.code.v)),
        File("readme", NoDir, In(<<"README.md">>),
             readme_content(kw.description.v, kw.requirements.v)),
        File("requirements_txt", NoDir, In(<<"requirements.txt">>),
             requirements_content(kw.requirements_txt)) >>
     \o (IF Truth(kw.api_route_plan)
         THEN <<File("api_route_plan", In(<<"docs">>),
                     In(<<"docs", "/", "api_route_plan.json">>),
                     json_dump(kw.api_route_plan, 0))>>
         ELSE <<>>)
     \o (IF Truth(kw.api_documentation)
         THEN <<File("api_documentation", In(<<"docs">>),
                     In(<<"docs", "/", "api_documentation.json">>),
                     json_dump(kw.api_documentation, 0))>>
         ELSE <<>>)
     \o (IF Truth(kw.frontend_code)
         THEN FrontendSaves(In(<<"frontend">>),
                            FrontendFiles(kw.frontend_code.v))
         ELSE <<>>)
     \o (IF Truth(kw.tests)
         THEN <<File("tests", In(<<"tests">>),
                     In(<<"tests", "/", "test_main.py">>),
                     extract_code_from_markdown(kw.tests.v))>>
         ELSE <<>>)

\* one save: the directory is made, then the file is written
Save(disk, file) ==
  LET made == IF file.mkdir = NoDir THEN [disk |-> disk, out |-> Ret(PyNone)]
              ELSE Mkdir(disk, file.mkdir)
  IN IF made.out.kind = "raise" \/ file.path = NoFile THEN made
     ELSE WriteFile(made.disk, file.path, file.content)

\* a token of a file that holds a part of the token tok only
Part(tok) == "<part of " \o tok \o ">"

\* what a write that fails after a part of the content leaves in the file:
\* the tokens before some token and nothing or a part of that token
Partial(content) ==
  {SubSeq(content, 1, k) : k \in 0..(Len(content) - 1)}
  \cup {Append(SubSeq(content, 1, k), Part(content[k + 1])) :
          k \in {n \in 0..(Len(content) - 1) : TokLen(content[n + 1]) > 1}}

\* the ways the save can fail for a reason outside the program (a full
\* disk, a lost permission): at any os.mkdir that is called, be it of a
\* directory that is there (is_dir() fails for the same reason), with the
\* directories made before it left; at the open, with the directories made;
\* in the write, with a part of the content in the file
MkdirFailures(disk, made) ==
  {[disk |-> Stage(disk, made.made, made.calls[n]), out |-> OSError("OSError")] :
     n \in DOMAIN made.calls}
SaveFailures(disk, file, made, done) ==
  MkdirFailures(disk, made)
  \cup (IF done.out.kind = "raise" \/ file.path = NoFile THEN {}
        ELSE {[disk |-> made.disk, out |-> OSError("OSError")]}
             \cup {[disk |-> WriteFile(made.disk, file.path, part).disk,
                    out |-> OSError("OSError")] :
                     part \in Partial(file.content)})
Failures(disk, file) ==
  SaveFailures(disk, file,
               IF file.mkdir = NoDir
               THEN [disk |-> disk, out |-> Ret(PyNone), made |-> <<>>,
                     calls |-> <<>>]
               ELSE PathMkdir(disk, Components(file.mkdir)),
               Save(disk, file))

\* faulty variant of AfterSave: a failed save removes the project folder
Mut_AfterSave(disk, project_path, result) ==
  IF result.out.kind = "raise"
  THEN [q \in {q \in DOMAIN result.disk : ~StartsWith(q, project_path)} |->
          result.disk[q]]
  ELSE result.disk

\* generate_project has no handler around its saves: what is on disk after
\* a save, failed or not, is what the save left
AfterSave(disk, project_path, result) == result.disk

\* generate_project, lines 451-478: the dict it returns, of the paths its
\* saves returned
ProjectFiles(kw, project_path, saves) ==
  LET Path(artifact) ==
        Str(saves[MinOf({n \in DOMAIN saves : saves[n].artifact = artifact})].path)
      Files(d) ==
        DictOf(SelectSeq(<<"project_path", "architecture_file",
                           "database_schema_file", "code_file", "readme_file",
                           "requirements_file", "api_route_plan_file",
                           "api_documentation_file", "frontend_files",
                           "frontend_path", "test_file">>,
                         LAMBDA k : k \in DOMAIN d), d)
  IN Files(("project_path" :> Str(project_path))
          @@ ("architecture_file" :> Path("architecture"))
          @@ ("database_schema_file" :> Path("database_schema"))
          @@ ("code_file" :> Path("code"))
          @@ ("readme_file" :> Path("readme"))
          @@ ("requirements_file" :> Path("requirements_txt"))
          @@ (IF Truth(kw.api_route_plan)
              THEN "api_route_plan_file" :> Path("api_route_plan") ELSE <<>>)
          @@ (IF Truth(kw.api_documentation)
              THEN "api_documentation_file" :> Path("api_documentation")
              ELSE <<>>)
          @@ (IF Truth(kw.frontend_code)
              THEN ("frontend_files" :>
                      FilesSaved(PathJoin(project_path, <<"frontend">>),
                                 FrontendFiles(kw.frontend_code.v)))
                   @@ ("frontend_path" :>
                         Str(PathJoin(project_path, <<"frontend">>)))
              ELSE <<>>)
          @@ (IF Truth(kw.tests) THEN "test_file" :> Path("tests") ELSE <<>>))

\* generate_project, line 448, and create_project_folder: the folder is
\* named after the name and the second, made if it is not there; the saves
\* to make are kept with the call
create_project_folder(t, kw) ==
  /\ stack[t] = <<>>
  /\ runs < MaxProjects
  /\ runs' = runs + 1
  /\ LET Step(project_path, made, failures) ==
           \E result \in {Outcome(made)} \cup failures :
             /\ fs' = result.disk
             /\ faults' = IF result \in failures THEN faults + 1 ELSE faults
             /\ IF result.out.kind = "raise"
                THEN /\ obs' = [call |-> [op |-> "generate_project", kw |-> kw],
                                thread |-> t, project_path |-> project_path,
                                saved |-> 0, out |-> result.out]
                     /\ UNCHANGED <<stack, owners>>
                ELSE /\ stack' = [stack EXCEPT ![t] =
                                    <<[op |-> "generate_project", kw |-> kw,
                                       project_path |-> project_path,
                                       saves |-> Saves(kw, project_path),
                                       saved |-> 0]>>]
                     /\ owners' =
                          [d \in DOMAIN owners \cup {project_path} |->
                             IF d \in DOMAIN owners /\ d # project_path
                             THEN owners[d]
                             ELSE IF d \in DOMAIN owners THEN owners[d] + 1
                                  ELSE 1]
                     /\ obs' = obs
         Folder(project_path) ==
           PathMkdir(fs, Components(project_path))
         Call(project_path) ==
           Step(project_path, Folder(project_path),
                IF faults < MaxFaults
                THEN MkdirFailures(fs, Folder(project_path)) ELSE {})
     IN Call(FolderName(kw.project_name, now))
  /\ UNCHANGED <<agents, tools, message_queue, lock, nextId, drained, pending,
                 lastReg, replaced, accepted, delivered, text, now>>

\* generate_project, lines 451-478: the next save; a failed save ends the
\* call with the exception, the last save ends it with the dict
save_next(t) ==
  /\ stack[t] # <<>>
  /\ stack[t][1].op = "generate_project"
  /\ LET Step(frame, file, failures) ==
           \E result \in {Save(fs, file)} \cup failures :
             /\ fs' = AfterSave(fs, frame.project_path, result)
             /\ faults' = IF result \in failures THEN faults + 1 ELSE faults
             /\ IF result.out.kind = "raise"
                THEN /\ stack' = [stack EXCEPT ![t] = <<>>]
                     /\ obs' = [call |-> [op |-> "generate_project",
                                          kw |-> frame.kw],
                                thread |-> t, project_path |-> frame.project_path,
                                saved |-> frame.saved, out |-> result.out]
                ELSE IF frame.saved + 1 = Len(frame.saves)
                     THEN /\ stack' = [stack EXCEPT ![t] = <<>>]
                          /\ obs' = [call |-> [op |-> "generate_project",
                                               kw |-> frame.kw],
                                     thread |-> t,
                                     project_path |-> frame.project_path,
                                     saved |-> Len(frame.saves),
                                     out |-> Ret(ProjectFiles(frame.kw,
                                                              frame.project_path,
                                                              frame.saves))]
                     ELSE /\ stack' = [stack EXCEPT ![t] =
                                         <<[frame EXCEPT !.saved = @ + 1]>>]
                          /\ obs' = obs
     IN Step(stack[t][1], stack[t][1].saves[stack[t][1].saved + 1],
             IF faults < MaxFaults
             THEN Failures(fs, stack[t][1].saves[stack[t][1].saved + 1])
             ELSE {})
  /\ UNCHANGED <<agents, tools, message_queue, lock, nextId, runs, drained,
                 pending, lastReg, replaced, accepted, delivered, text, now,
                 owners>>

\* time passes
Tick ==
  /\ now < MaxClock
  /\ now' = now + 1
  /\ UNCHANGED <<agents, tools, message_queue, lock, stack, nextId, runs, obs,
                 drained, pending, lastReg, replaced, accepted, delivered, text,
                 fs, owners, faults>>

(***************************************************************************)
(* Specification of project materialization: generate_project of one      *)
(* FileGenerator is called with artifacts, every parameter of its          *)
(* signature used.  Its caller in the repository, the API handler          *)
(* generate_software, is a coroutine without an await around the call and  *)
(* the server runs one event loop (api/main.py), so the calls follow one   *)
(* another on one thread                                                   *)
(***************************************************************************)
EventLoop == "t1"

Artifacts(architecture, api_route_plan, api_documentation, requirements_txt, frontend_code, tests, project_name) ==
  [architecture |-> Str(architecture),
   database_schema |-> Str(<<FENCE, "sql", NL, "CREATE TABLE", "x", ";", NL, FENCE>>),
   code |-> Str(<<FENCE, "python", NL, "x", NL, FENCE>>),
   api_route_plan |-> api_route_plan,
   api_documentation |-> api_documentation,
   requirements_txt |-> requirements_txt,
   frontend_code |-> Str(frontend_code),
   tests |-> Str(tests),
   description |-> Str(<<"x">>),
   requirements |-> Str(<<>>),
   project_name |-> project_name]

ArtifactSets ==
  { \* the backend only, no name
    Artifacts(<<"x">>, EmptyDict, PyNone, PyNone, <<>>, <<>>, PyNone),
    \* every artifact
    Artifacts(<<"x", "x">>,
              DictOf(<<"routes", "base_url">>,
                     [routes |-> List(<<>>),
                      base_url |-> Txt("a\"b")]),
              Dict("base_url" :> Txt("x")), Txt("fastapi"),
              <<FENCE, "jsx:", "src", "/", "App.jsx", NL, "export default App",
                NL, FENCE>>,
              <<"x">>, Str(<<"a", " ", "b", "!">>)),
    \* a frontend file named outside frontend/
    Artifacts(<<"x">>, EmptyDict, PyNone, PyNone,
              <<FENCE, "jsx:", "src", "/", "..", "/", "..", "/", "tests", "/",
                "evil.js", NL, "export default App", NL, FENCE>>,
              <<>>, Str(<<"a", "-", "b">>)),
    \* a frontend without named files, a long name
    Artifacts(<<"x">>, PyNone, PyNone, PyNone, <<"export default App">>,
              <<>>, Str([n \in 1..(NameLimit + 1) |-> "a"])) }

FileCalls(t) ==
  \/ \E kw \in ArtifactSets : create_project_folder(t, kw)
  \/ save_next(t)

\* FileGenerator.__init__: base_output_dir exists and is empty
InitFiles ==
  /\ agents = {}
  /\ tools = <<>>
  /\ message_queue = <<>>
  /\ lock = NoThread
  /\ stack = [t \in Threads |-> <<>>]
  /\ nextId = 1
  /\ runs = 0
  /\ obs = NoObs
  /\ drained = [a \in AllAgents |-> "no"]
  /\ pending = [a \in AllAgents |-> <<>>]
  /\ lastReg = <<>>
  /\ replaced = {}
  /\ accepted = [a \in AllAgents |-> <<>>]
  /\ delivered = [a \in AllAgents |-> <<>>]
  /\ text = <<>>
  /\ fs = <<>>
  /\ now = 0
  /\ owners = <<>>
  /\ faults = 0

NextFiles ==
  \/ FileCalls(EventLoop)
  \/ Tick

SpecFiles == InitFiles /\ [][NextFiles]_vars

(***************************************************************************)
(* Specification of the frontend bundle: save_frontend is called with an   *)
(* LLM output made of tagged blocks, in a project folder that exists       *)
(***************************************************************************)
MaxBlocks == 2

ProjectDir == FolderName(PyNone, 0)
FrontendDir == PathJoin(ProjectDir, <<"frontend">>)

FrontendPaths ==
  { <<"src", "/", "App.jsx">>, <<"App.jsx">>, <<"package.json">>, <<"on">>,
    <<"a.js">>, <<"notes.md">>,
    <<"/", "frontend", "/", "public", "/", "a.js">>,
    <<"src", "/", "App.jsx", "/", "a.js">>,
    <<"src", "/", "..", "/", "..", "/", "tests", "/", "evil.js">> }
FrontendBodies ==
  { <<"export default App">>, <<"x">>,
    <<NL, "export default App", NL, "x", SP>> }
TaggedBlocks ==
  { <<FENCE, "jsx:">> \o path \o <<NL>> \o body \o <<FENCE>> :
      path \in FrontendPaths, body \in FrontendBodies }

\* outputs for save_frontend: up to MaxBlocks tagged blocks, each followed
\* by a newline, and outputs without a tagged block
FrontendTexts ==
  { Join(blocks, <<NL>>) : blocks \in Seqs(TaggedBlocks, MaxBlocks) }
  \cup { <<"export default App">>,
         <<FENCE, NL, "export default App", NL, FENCE>> }

\* the for loop of lines 337-401 and the fallback's two writes: the saves one
\* after another until one raises
RECURSIVE SaveAll(_, _, _)
RECURSIVE SaveRest(_, _, _)
SaveAll(disk, files, n) ==
  IF n > Len(files)
  THEN [disk |-> disk, out |-> Ret(PyNone)]
  ELSE SaveRest(Save(disk, files[n]), files, n)
SaveRest(result, files, n) ==
  IF result.out.kind = "raise" THEN result
  ELSE SaveAll(result.disk, files, n + 1)

\* FileGenerator.save_frontend(project_path, frontend_code), lines 322-412
save_frontend ==
  /\ obs = NoObs
  /\ LET Return(files, result) ==
           /\ fs' = result.disk
           /\ obs' = [call |-> [op |-> "save_frontend"],
                      out |-> IF result.out.kind = "raise" THEN result.out
                              ELSE Ret(FilesSaved(FrontendDir, files))]
     IN Return(FrontendFiles(text),
               SaveAll(fs, FrontendSaves(FrontendDir, FrontendFiles(text)), 1))
  /\ UNCHANGED <<agents, tools, message_queue, lock, stack, nextId, runs,
                 drained, pending, lastReg, replaced, accepted, delivered, text,
                 now, owners, faults>>

\* create_project_folder has made the project folder
InitFrontend ==
  /\ agents = {}
  /\ tools = <<>>
  /\ message_queue = <<>>
  /\ lock = NoThread
  /\ stack = [t \in Threads |-> <<>>]
  /\ nextId = 1
  /\ runs = 0
  /\ obs = NoObs
  /\ drained = [a \in AllAgents |-> "no"]
  /\ pending = [a \in AllAgents |-> <<>>]
  /\ lastReg = <<>>
  /\ replaced = {}
  /\ accepted = [a \in AllAgents |-> <<>>]
  /\ delivered = [a \in AllAgents |-> <<>>]
  /\ text \in FrontendTexts
  /\ fs = (ProjectDir :> IsDir)
  /\ now = 0
  /\ owners = <<>>
  /\ faults = 0

NextFrontend == save_frontend

SpecFrontend == InitFrontend /\ [][NextFrontend]_vars

(***************************************************************************)
(* Properties                                                              *)
(***************************************************************************)
SentRequest == obs.call.op = "send_message"
               /\ obs.call.message.message_type = "request"
Direct == obs.call.via = "direct"
ViaCallAgent == obs.call.via = "call_agent"
ProcessRan == obs.call.op = "process"

\* C1: a request whose tool resolves and whose handler returns normally is
\* answered by a response with success = true, the handler's return value as
\* result and no error message
C1_SuccessResponse ==
  (SentRequest /\ obs.inv.invoked /\ obs.inv.hout.kind = "return")
    => /\ obs.resp.success = TRUE
       /\ obs.resp.result = obs.inv.hout.val
       /\ obs.resp.error_message = PyNone
       /\ Direct => obs.out = Ret(obs.resp)

C1_Witness ==
  /\ SentRequest /\ Direct
  /\ obs.inv.invoked
  /\ obs.inv.hout = Ret(Txt("v1"))
  /\ obs.resp.success

\* C2: a request to an unregistered agent, or for a tool that resolves under
\* neither key, is answered (send_message returns) by a response with
\* success = false, result None and an error message, and no handler runs
C2_DispatchMiss ==
  (SentRequest /\ (~obs.pre.registered
                   \/ (obs.pre.qualified = "none" /\ obs.pre.bare = "none")))
    => /\ obs.resp # PyNone
       /\ obs.resp.success = FALSE
       /\ obs.resp.result = PyNone
       /\ obs.resp.error_message # PyNone
       /\ ~obs.inv.invoked
       /\ Direct => obs.out = Ret(obs.resp)

C2_Witness ==
  /\ SentRequest /\ Direct
  /\ obs.pre.registered
  /\ obs.pre.qualified = "none" /\ obs.pre.bare = "none"
  /\ obs.resp.success = FALSE

\* the last completed call was a request whose handler raised
HandlerRaised == SentRequest /\ obs.inv.invoked /\ obs.inv.hout.kind = "raise"
\* thread t is alone in a handler that ends in this step by raising
RaisesNow(t) ==
  /\ InHandler(t) /\ Len(stack[t]) = 1
  /\ stack'[t] = <<>>
  /\ obs'.inv.hout.kind = "raise"

\* C3 as stated: when the handler raises, send_message returns a response
\* with success = false and the exception's str() as error message, the
\* exception does not reach the caller, and the lock is not left held
C3_HandlerFault ==
  /\ HandlerRaised
       => /\ obs.resp # PyNone
          /\ obs.resp.success = FALSE
          /\ obs.resp.result = PyNone
          /\ obs.resp.error_message = Msg(obs.inv.hout.msg)
          /\ Direct => obs.out = Ret(obs.resp)
  /\ \A t \in Threads :
       lock = t => \E i \in 1..Len(stack[t]) : stack[t][i].fn = "send_message"

\* C3 amended: in the step in which a handler raises, the agents, the tools
\* and the inboxes stay as they are and the lock is released; when the
\* exception derives from Exception, send_message returns a response with
\* success = false and the exception's str() as error message; when it
\* does not (SystemExit, KeyboardInterrupt), it reaches the caller of
\* send_message and there is no response
C3_ExceptionFault ==
  [][\A t \in Threads :
       RaisesNow(t) =>
         /\ agents' = agents /\ tools' = tools
         /\ message_queue' = message_queue
         /\ lock = t /\ lock' = NoThread
         /\ IF obs'.inv.hout.cls \in BaseOnly
            THEN obs'.resp = PyNone /\ obs'.out = obs'.inv.hout
            ELSE /\ obs'.resp # PyNone
                 /\ obs'.resp.success = FALSE
                 /\ obs'.resp.result = PyNone
                 /\ obs'.resp.error_message = Msg(obs'.inv.hout.msg)
                 /\ obs'.call.via = "direct" => obs'.out = Ret(obs'.resp)]_vars

\* a handler raised an Exception and the caller has the failure response;
\* the tool it ran is still registered and the lock is free
C3_Witness ==
  /\ HandlerRaised /\ Direct
  /\ obs.inv.hout = Exc("Exception", "boom")
  /\ obs.resp.error_message = Msg("boom")
  /\ obs.out = Ret(obs.resp)
  /\ obs.inv.key \in DOMAIN tools
  /\ lock = NoThread

\* C4: a handler that calls back into the server is never left waiting for
\* the server lock that its own thread holds
C4_NoSelfDeadlock ==
  \A t \in Threads :
    ~(InHandler(t) /\ Top(stack[t]).hpc = "nested" /\ lock = t)

\* C5: call_agent returns the response's result when success = true and
\* raises with the response's error message when success = false
C5_CallAgent ==
  (SentRequest /\ ViaCallAgent)
    => IF obs.resp = PyNone THEN obs.out.kind = "raise"
       ELSE /\ obs.resp.success => obs.out = Ret(obs.resp.result)
            /\ ~obs.resp.success =>
                 /\ obs.out.kind = "raise"
                 /\ obs.out.msg = "Tool execution failed: " \o obs.resp.error_message.v

C5_Witness ==
  /\ SentRequest /\ ViaCallAgent
  /\ obs.resp # PyNone
  /\ ~obs.resp.success
  /\ obs.out.kind = "raise"

\* C6: a failing step is the last step of its run and process raises: no
\* later step's call is made and no result is returned
C6_AbortOnFailure ==
  /\ ProcessRan =>
       \A i \in 1..Len(obs.trace) :
         obs.trace[i].out.kind = "raise"
           => i = Len(obs.trace) /\ obs.out.kind = "raise"
  /\ \A t \in Threads :
       (stack[t] # <<>> /\ stack[t][1].fn = "process")
         => \A i \in 1..Len(stack[t][1].trace) :
              stack[t][1].trace[i].out.kind = "return"

C6_Witness ==
  /\ ProcessRan
  /\ Len(obs.trace) = 4
  /\ obs.trace[4].out.kind = "raise"
  /\ obs.out.kind = "raise"

\* C7: a run in which every step is served by the agent's own tool and every
\* LLM call made returns text ends by returning a result with architecture,
\* database_schema, api_route_plan and code
C7_RunCompletes ==
  (/\ ProcessRan
   /\ \A i \in 1..Len(obs.trace) :
        /\ obs.trace[i].inv.invoked
        /\ obs.trace[i].inv.h \in AgentHandlers
        /\ obs.trace[i].inv.llm \in {"none", "ok"})
    => /\ obs.out.kind = "return"
       /\ {"architecture", "database_schema", "api_route_plan", "code"}
            \subseteq DOMAIN obs.out.val.d

\* C8: the registry holds for every key exactly the handler of the latest
\* register_tool for it, and a request resolving to a key runs that handler
C8_OverwriteWins ==
  /\ DOMAIN tools = DOMAIN lastReg
  /\ \A k \in DOMAIN tools : tools[k] = lastReg[k]
  /\ (SentRequest /\ obs.inv.invoked) => obs.inv.h = obs.inv.latest

C8_Witness ==
  /\ SentRequest
  /\ obs.inv.invoked
  /\ obs.inv.replaced
  /\ obs.inv.h = obs.inv.latest

\* C9: the handler run is the one under "<to_agent>.<tool>" when that key is
\* registered, and the one under the bare tool name only when it is not
C9_QualifiedFirst ==
  (SentRequest /\ obs.inv.invoked)
    => IF obs.pre.qualified # "none"
       THEN /\ obs.inv.h = obs.pre.qualified
            /\ obs.inv.key = ToolKey(obs.call.message.to_agent,
                                     obs.call.message.tool)
       ELSE /\ obs.inv.h = obs.pre.bare
            /\ obs.inv.key = obs.call.message.tool

C9_Witness ==
  /\ SentRequest
  /\ obs.inv.invoked
  /\ obs.pre.qualified # "none"
  /\ obs.pre.bare # "none"
  /\ obs.pre.qualified # obs.pre.bare
  /\ obs.inv.h = obs.pre.qualified

\* C10: get_messages for a registered agent returns the messages accepted
\* since its inbox was last emptied, in the order they were accepted, and
\* returns the empty list when it follows a get_messages with no send between
C10_DrainTwice ==
  (obs.call.op = "get_messages" /\ obs.pre.registered)
    => /\ Ids(obs.out.val) = obs.pre.pending
       /\ obs.pre.again # "no" => obs.out.val = <<>>

C10_Witness ==
  /\ obs.call.op = "get_messages"
  /\ obs.pre.registered
  /\ obs.pre.again = "full"
  /\ obs.out.val = <<>>

\* C11: for a registered agent, the ids appended to its inbox since its
\* registration are, in the same order, the ids the get_messages calls have
\* returned so far followed by the ids still in the inbox: no message is
\* lost, none is returned twice, every drain is in enqueue order
C11_DrainConserves ==
  \A a \in agents :
    /\ a \in DOMAIN message_queue
    /\ accepted[a] = delivered[a] \o Ids(message_queue[a])

\* a message drained earlier, and a second thread's request accepted and
\* being handled under the lock while the other thread is kept out
C11_Witness ==
  \E t \in Threads, a \in agents :
    /\ lock = t /\ InHandler(t)
    /\ \E u \in Threads \ {t} : stack[u] = <<>>
    /\ Len(accepted[a]) = 2
    /\ Len(delivered[a]) = 1
    /\ Ids(message_queue[a]) = <<accepted[a][2]>>

\* the message of a send_message step (the steps that take a fresh id): the
\* call is in the activation the step pushed, or it is the call that returned
SendStep == nextId' # nextId
SentMessage ==
  IF \E t \in Threads : Len(stack'[t]) > Len(stack[t])
  THEN LET t == CHOOSE u \in Threads : Len(stack'[u]) > Len(stack[u])
       IN Top(stack'[t]).call.message
  ELSE obs'.call.message

\* C12: a send_message step to a registered recipient puts the message once
\* at the end of that recipient's inbox and leaves every other inbox as it
\* was; to an unregistered recipient it returns the failure response naming
\* the agent and leaves all inboxes as they were; and no inbox changes while
\* the tool runs under the lock, however the tool ends
C12_SendFrame ==
  [][ /\ SendStep =>
           LET to == SentMessage.to_agent IN
           IF to \in agents
           THEN /\ DOMAIN message_queue' = DOMAIN message_queue
                /\ message_queue'[to] = Append(message_queue[to], SentMessage)
                /\ \A a \in DOMAIN message_queue \ {to} :
                     message_queue'[a] = message_queue[a]
           ELSE /\ message_queue' = message_queue
                /\ obs'.call.op = "send_message"
                /\ obs'.resp.message_type = "response"
                /\ obs'.resp.success = FALSE
                /\ obs'.resp.correlation_id = SentMessage.message_id
                /\ obs'.resp.error_message = Msg("Agent " \o to \o " not found")
      /\ lock # NoThread => message_queue' = message_queue
    ]_vars

\* a request whose tool raised: the message is the newest of the two in the
\* recipient's inbox
C12_Witness ==
  /\ SentRequest
  /\ obs.pre.registered
  /\ obs.inv.invoked
  /\ obs.inv.hout.kind = "raise"
  /\ lock = NoThread
  /\ obs.call.message.to_agent \in DOMAIN message_queue
  /\ LET q == message_queue[obs.call.message.to_agent] IN
     Len(q) = 2 /\ q[2] = obs.call.message

\* C13: an unregister_agent(a) step leaves a unregistered and without inbox,
\* every other agent registered with its inbox as it was, and the tool
\* registry as it was, the keys "a.<tool>" included
C13_UnregisterFrame ==
  [][ \A t \in Threads, a \in SrvAgents :
        unregister_agent(t, [op |-> "unregister_agent", agent_name |-> a])
          => /\ agents' = agents \ {a}
             /\ DOMAIN message_queue' = DOMAIN message_queue \ {a}
             /\ \A b \in DOMAIN message_queue' :
                  message_queue'[b] = message_queue[b]
             /\ tools' = tools
    ]_vars

\* agent a was unregistered while its tool "a.t" was registered and agent b
\* had a message waiting: the key and b's inbox are still there
C13_Witness ==
  /\ obs.call = [op |-> "unregister_agent", agent_name |-> "a"]
  /\ obs.pre.registered
  /\ "a" \notin agents /\ "a" \notin DOMAIN message_queue
  /\ ToolKey("a", SrvTool) \in DOMAIN tools
  /\ "b" \in agents /\ message_queue["b"] # <<>>

\* C14: a register_agent(a) step leaves a registered with an empty inbox,
\* whatever the inbox held, and leaves the other agents, their inboxes and
\* the tool registry as they were
C14_RegisterResets ==
  [][ \A t \in Threads, a \in SrvAgents :
        register_agent(t, [op |-> "register_agent", agent_name |-> a])
          => /\ agents' = agents \cup {a}
             /\ DOMAIN message_queue' = DOMAIN message_queue \cup {a}
             /\ message_queue'[a] = <<>>
             /\ \A b \in DOMAIN message_queue \ {a} :
                  message_queue'[b] = message_queue[b]
             /\ tools' = tools
    ]_vars

\* agent b was registered again while a message was waiting in its inbox,
\* and the inbox is empty
C14_Witness ==
  /\ obs.call = [op |-> "register_agent", agent_name |-> "b"]
  /\ obs.pre.registered
  /\ obs.pre.pending # <<>>
  /\ message_queue["b"] = <<>>
  /\ "b" \in agents

\* C15: every MCPResponse that a constructor returned has a correlation id,
\* every MCPRequest that a constructor returned has a non-empty tool name,
\* and no request with an empty tool name is in an inbox
C15_MessageValidation ==
  /\ (obs.call.op = "construct" /\ obs.out.kind = "return")
       => /\ obs.call.cls = "MCPResponse" => obs.out.val.correlation_id # NoId
          /\ obs.call.cls = "MCPRequest" => obs.out.val.tool # ""
  /\ \A a \in DOMAIN message_queue : \A i \in 1..Len(message_queue[a]) :
       message_queue[a][i].message_type = "request"
         => message_queue[a][i].tool # ""

\* the last completed call was a generate_project
Generated == obs.call.op = "generate_project"
\* the file system has something at the path rel of the project folder
InProject(disk, project_path, rel) ==
  Normal(PathJoin(project_path, rel)) \in DOMAIN disk

\* C16: when generate_project has returned, its project folder holds
\* ARCHITECTURE.md, database/schema.sql, main.py, requirements.txt and
\* README.md, and it holds frontend/ only if frontend_code was not empty,
\* docs/api_route_plan.json only if the route plan was not empty, and tests/
\* only if tests was not empty
C16_ProjectContents ==
  (Generated /\ obs.out.kind = "return") =>
    LET kw == obs.call.kw
        Has(rel) == InProject(fs, obs.project_path, rel)
    IN /\ Has(<<"ARCHITECTURE.md">>)
       /\ Has(<<"database", "/", "schema.sql">>)
       /\ Has(<<"main.py">>)
       /\ Has(<<"requirements.txt">>)
       /\ Has(<<"README.md">>)
       /\ Has(<<"frontend">>) => Truth(kw.frontend_code)
       /\ Has(<<"docs", "/", "api_route_plan.json">>) => Truth(kw.api_route_plan)
       /\ Has(<<"tests">>) => Truth(kw.tests)

\* C17: no two calls of create_project_folder return the same folder
C17_DistinctFolders ==
  \A folder \in DOMAIN owners : owners[folder] = 1

\* thread t is in generate_project and the save it makes in this step fails
SaveFails(t) ==
  /\ stack[t] # <<>>
  /\ stack[t][1].op = "generate_project"
  /\ \/ faults' # faults
     \/ Save(fs, stack[t][1].saves[stack[t][1].saved + 1]).out.kind = "raise"

\* C18: when a save of generate_project fails, the call ends there with the
\* exception, so that no later artifact is written, and what was on disk
\* stays: every file saved before is there with the content it was saved
\* with
C18_NoRollback ==
  [][\A t \in Threads :
       SaveFails(t) =>
         LET frame == stack[t][1]
             saves == frame.saves
             failing == Normal(saves[frame.saved + 1].path)
             At(n) == Normal(saves[n].path)
         IN /\ stack'[t] = <<>>
            /\ obs'.call = [op |-> "generate_project", kw |-> frame.kw]
            /\ obs'.out.kind = "raise"
            /\ obs'.saved = frame.saved
            /\ \A path \in DOMAIN fs :
                 /\ path \in DOMAIN fs'
                 /\ path # failing => fs'[path] = fs[path]
            /\ \A n \in 1..frame.saved :
                 (saves[n].path # NoFile /\ At(n) # failing) =>
                   /\ At(n) \in DOMAIN fs'
                   /\ \/ fs'[At(n)] = IsFile(saves[n].content)
                      \/ \E m \in (n + 1)..frame.saved : At(m) = At(n)
            /\ \A n \in (frame.saved + 2)..Len(saves) :
                 (saves[n].path # NoFile /\ At(n) # failing) =>
                   (At(n) \in DOMAIN fs' => At(n) \in DOMAIN fs)]_vars

\* generate_project has ended with an exception at its fourth save: the
\* three files saved before are on disk with their content and the file
\* that comes after is not
C18_Witness ==
  /\ Generated
  /\ obs.out.kind = "raise"
  /\ obs.saved = 3
  /\ runs = 1
  /\ LET saves == Saves(obs.call.kw, obs.project_path)
     IN /\ \A n \in 1..3 :
             /\ Normal(saves[n].path) \in DOMAIN fs
             /\ fs[Normal(saves[n].path)] = IsFile(saves[n].content)
        /\ Normal(saves[5].path) \notin DOMAIN fs

\* C19: _extract_api_route_plan returns for every output, and returns the
\* empty dict for an output that names none of api_route_plan, base_url and
\* routes
C19_ExtractNeverRaises ==
  obs.call.op = "_extract_api_route_plan"
    => /\ obs.out.kind = "return"
       /\ (\A n \in 1..Len(text) : text[n] \notin StringTokens)
            => obs.out = Ret(EmptyDict)

\* the index after the opening line of a sql fence at index i: the tag, then
\* whitespace with a newline in it (0 when i opens no such fence)
SqlBody(i) ==
  IF /\ i + 1 <= Len(text) /\ text[i] = FENCE /\ text[i + 1] = "sql"
     /\ \E q \in (i + 2)..Len(text) :
          /\ text[q] = NL
          /\ \A n \in (i + 2)..q : text[n] \in {NL, SP}
  THEN CHOOSE b \in (i + 3)..(Len(text) + 1) :
         /\ \A n \in (i + 2)..(b - 1) : text[n] \in {NL, SP}
         /\ b <= Len(text) => text[b] \notin {NL, SP}
  ELSE 0
\* the sql fenced blocks of the output: opened at i and closed by a later fence
SqlBlocks ==
  {i \in 1..Len(text) :
     SqlBody(i) > 0 /\ \E k \in SqlBody(i)..Len(text) : text[k] = FENCE}
\* the CREATE TABLE statements of the output: the keyword in either case with
\* something but a semicolon after it, outside a statement begun before
CreateStarts ==
  LET Begins(i) == /\ text[i] \in {"CREATE TABLE", "create table"}
                   /\ i < Len(text) /\ text[i + 1] # ";"
  IN {j \in 1..Len(text) :
        /\ Begins(j)
        /\ ~\E i \in 1..(j - 1) :
              Begins(i) /\ \A n \in (i + 1)..(j - 1) : text[n] # ";"}
Statement(i) ==
  LET rest == {k \in (i + 1)..Len(text) : text[k] = ";"}
  IN SubSeq(text, i, IF rest = {} THEN Len(text)
                     ELSE CHOOSE k \in rest : \A n \in rest : k <= n)
Trimmed(s, r) ==
  \E a \in 1..(Len(s) + 1), b \in 0..Len(s) :
    /\ r = SubSeq(s, a, b)
    /\ \A n \in (1..(a - 1)) \cup ((b + 1)..Len(s)) : s[n] \in {NL, SP}
    /\ r # <<>> => r[1] \notin {NL, SP} /\ r[Len(r)] \notin {NL, SP}

\* C20: _extract_sql_schema returns the trimmed content of the first sql
\* fenced block when there is one; else, when the output has CREATE TABLE
\* statements in either case, all of them in order of appearance, joined
\* and trimmed; else the whole output trimmed
C20_SqlExtraction ==
  obs.call.op = "_extract_sql_schema" =>
    LET out == obs.out.val.v IN
    IF SqlBlocks # {}
    THEN LET i == CHOOSE m \in SqlBlocks : \A n \in SqlBlocks : m <= n
             k == CHOOSE m \in SqlBody(i)..Len(text) :
                    /\ text[m] = FENCE
                    /\ \A n \in SqlBody(i)..(m - 1) : text[n] # FENCE
         IN Trimmed(SubSeq(text, SqlBody(i), k - 1), out)
    ELSE IF CreateStarts # {}
         THEN \E order \in [1..Cardinality(CreateStarts) -> CreateStarts] :
                /\ \A m, n \in DOMAIN order : m < n => order[m] < order[n]
                /\ Trimmed(Join([n \in DOMAIN order |-> Statement(order[n])],
                                 <<NL, NL>>), out)
         ELSE Trimmed(text, out)

\* an output with a CREATE TABLE statement before a sql block that holds
\* another one: the block's content is returned
C20_Witness ==
  /\ obs.call.op = "_extract_sql_schema"
  /\ \E i \in SqlBlocks, j \in CreateStarts : j < i
  /\ obs.out.val.v = <<"CREATE TABLE", "x", ";">>

(***************************************************************************)
(* Claims about save_frontend                                              *)
(***************************************************************************)
FrontendSaved == obs.call.op = "save_frontend"
\* the tagged blocks of the text, and the keys of the mapping returned
TaggedIn(frontend_code) == FileBlocks(frontend_code, 1)
ReturnedKeys == DOMAIN obs.out.val.d
\* the path of a block as cleaned: trimmed, leading slashes and frontend/ dropped
CleanPath(block) == Strip(DropFrontend(LStripSlash(Strip(block.filepath))))
Recognized(path) ==
  \/ path # <<>> /\ ValidExtension(path[Len(path)]) # ""
  \/ path \in KnownConfig
\* the normalized path: a path that is not under src/ or public/, and is not
\* a bare .json file name, is put under src/
NormalizedPath(path) ==
  IF \/ StartsWith(path, <<"src", "/">>) \/ StartsWith(path, <<"public", "/">>)
     \/ (Len(path) = 1 /\ ValidExtension(path[1]) = ".json")
  THEN path
  ELSE <<"src", "/">> \o path
\* the file a relative path names under frontend/, as the file system resolves it
FrontendTarget(path) == Normal(PathJoin(FrontendDir, path))
\* a block whose cleaned path is the bare word "on" leaves no key and no file
BareWordRejected ==
  (\E n \in DOMAIN TaggedIn(text) : CleanPath(TaggedIn(text)[n]) = <<"on">>)
  => /\ obs.out.kind = "return"
        => ReturnedKeys \cap {<<"on">>, <<"src", "/", "on">>} = {}
     /\ \A at \in DOMAIN fs : at[Len(at)] # "on"

\* C21 as stated: when every tagged block has a recognized path, save_frontend
\* returns a mapping whose keys are exactly the blocks' normalized paths and
\* each block's trimmed body is in the file at its path; a block whose path
\* is the bare word "on" leaves no key and no file
C21_KeysAreBlockPaths ==
  FrontendSaved =>
    /\ (/\ TaggedIn(text) # <<>>
        /\ \A n \in DOMAIN TaggedIn(text) : Recognized(CleanPath(TaggedIn(text)[n])))
       => /\ obs.out.kind = "return"
          /\ ReturnedKeys =
               {NormalizedPath(CleanPath(TaggedIn(text)[n])) : n \in DOMAIN TaggedIn(text)}
          /\ \A n \in DOMAIN TaggedIn(text) :
               /\ FrontendTarget(NormalizedPath(CleanPath(TaggedIn(text)[n]))) \in DOMAIN fs
               /\ fs[FrontendTarget(NormalizedPath(CleanPath(TaggedIn(text)[n])))]
                    = IsFile(Strip(TaggedIn(text)[n].content))
    /\ BareWordRejected

\* the blocks save_frontend does not skip: a trimmed body of 10 characters or
\* more and a recognized path of 5 characters or more (or a known config file)
Accepted(block) ==
  /\ CharLen(Strip(block.content)) >= 10
  /\ Recognized(CleanPath(block))
  /\ CharLen(CleanPath(block)) >= 5 \/ CleanPath(block) \in KnownConfig

(***************************************************************************)
(* Claims about the pipeline's steps                                       *)
(***************************************************************************)
\* C22: a run whose five steps succeed calls the test generator's
\* generate_tests after the frontend step and returns the test text under
\* "tests"
C22_TestsGenerated ==
  (/\ ProcessRan
   /\ Len(obs.trace) >= 5
   /\ \A i \in 1..5 : obs.trace[i].out.kind = "return")
    => /\ obs.out.kind = "return"
       /\ Len(obs.trace) >= 6
       /\ obs.trace[6].inv.invoked
       /\ obs.trace[6].inv.key = ToolKey("test_generator", "generate_tests")
       /\ "tests" \in DOMAIN obs.out.val.d

\* C23: while a handler runs inside send_message the server lock is free, so
\* that the calls of the other threads, which all begin by taking the lock,
\* do not wait for the handler
C23_HandlerRunsUnlocked ==
  \A t \in Threads :
    (InHandler(t) /\ Top(stack[t]).hpc = "run") => lock = NoThread

\* C24: every response send_message produces answers a request passed to it:
\* its correlation_id is that request's message_id and its from_agent and
\* to_agent are that request's to_agent and from_agent
C24_ResponseAnswersRequest ==
  (obs.call.op = "send_message" /\ obs.resp # PyNone)
    => /\ obs.call.message.message_type = "request"
       /\ obs.resp.correlation_id = obs.call.message.message_id
       /\ obs.resp.from_agent = obs.call.message.to_agent
       /\ obs.resp.to_agent = obs.call.message.from_agent

\* the tool each step of process calls, in the order of the code
StepTool(i) ==
  CASE i = 1 -> "create_architecture"
    [] i = 2 -> "create_database_schema"
    [] i = 3 -> "plan_api_routes"
    [] i = 4 -> "generate_code"
    [] i = 5 -> "generate_frontend"

\* what process keeps of the results of steps 1, 2 and 3
ArchitectureOf(r) == IF IsStr(r) THEN r ELSE Get(r, "architecture", EmptyStr)
SchemaOf(r) == IF IsDict(r) THEN Get(r, "database_schema", EmptyStr) ELSE r
PlanOf(r) == IF IsDict(r) THEN Get(r, "api_route_plan", EmptyDict) ELSE EmptyDict

\* the calls of one run, in order: call i is a request of the orchestrator for
\* the i-th tool, made after calls 1..i-1 returned, with the outputs of the
\* earlier steps as its parameters
StepsInOrder(trace) ==
  /\ Len(trace) <= 5
  /\ \A i \in 1..Len(trace) :
       /\ trace[i].step = i
       /\ trace[i].request.message_type = "request"
       /\ trace[i].request.from_agent = "orchestrator"
       /\ trace[i].request.to_agent = AgentOf(StepTool(i))
       /\ trace[i].request.tool = StepTool(i)
       /\ \A j \in 1..(i - 1) :
            /\ trace[j].out.kind = "return"
            /\ trace[j].request.message_id < trace[i].request.message_id
       /\ i \in {2, 3} =>
            trace[i].request.parameters.architecture
              = ArchitectureOf(trace[1].out.val)
       /\ i = 4 =>
            /\ trace[4].request.parameters.database_schema
                 = SchemaOf(trace[2].out.val)
            /\ trace[4].request.parameters.api_route_plan
                 = PlanOf(trace[3].out.val)
       /\ i = 5 =>
            trace[5].request.parameters.api_route_plan
              = PlanOf(trace[3].out.val)

\* C25: within one run the five tools are called one after another in the
\* order of the pipeline, each only after the earlier ones returned, and
\* the architecture of step 1 is the parameter of steps 2 and 3, the schema
\* of step 2 and the route plan of step 3 those of step 4, the route plan of
\* step 3 that of step 5
C25_StepsInOrder ==
  /\ ProcessRan => StepsInOrder(obs.trace)
  /\ \A t \in Threads :
       (stack[t] # <<>> /\ stack[t][1].fn = "process")
         => StepsInOrder(stack[t][1].trace)

C25_Witness ==
  /\ ProcessRan
  /\ Len(obs.trace) = 5
  /\ obs.out.kind = "return"
  /\ \A i \in 1..5 : obs.trace[i].inv.invoked
  /\ obs.trace[1].inv.h = "create_architecture"
  /\ obs.trace[4].inv.h = "generate_code"
  /\ obs.trace[2].request.parameters.architecture = obs.trace[1].out.val
  /\ obs.trace[2].request.parameters.architecture # EmptyStr
  /\ obs.trace[4].request.parameters.database_schema = obs.trace[2].out.val
  /\ obs.trace[4].request.parameters.database_schema # EmptyStr
  /\ obs.trace[3].inv.h = "h_plan"
  /\ obs.trace[4].request.parameters.api_route_plan
       = obs.trace[3].out.val.d["api_route_plan"]
  /\ obs.trace[5].request.parameters.api_route_plan
       = obs.trace[3].out.val.d["api_route_plan"]

\* the values of the key api_route_plan in the json fenced blocks of the
\* output that parse to an object having the key
FencedPlans(output) ==
  LET blocks == FencedAll(output, 1, {"json"}, TRUE)
      Parsed(i) == json_loads(Strip(blocks[i].group))
  IN {Parsed(i).val.d["api_route_plan"] :
        i \in {j \in 1..Len(blocks) :
                 /\ Parsed(j).kind = "return"
                 /\ IsDict(Parsed(j).val)
                 /\ "api_route_plan" \in DOMAIN Parsed(j).val.d}}

\* C26: for an output with a json fenced block that parses to an object with
\* the key api_route_plan, _extract_api_route_plan returns the value of the
\* key of such a block, whatever other json fenced blocks the output has
C26_PlanBlockPreferred ==
  (obs.call.op = "_extract_api_route_plan" /\ FencedPlans(text) # {})
    => \E plan \in FencedPlans(text) : obs.out = Ret(plan)

\* C27: when the text has no tagged block that save_frontend accepts (no
\* tagged block at all, or every one skipped for its path or its body), the
\* whole text without its code fence is written as src/App.jsx and the
\* mapping returned has exactly the key src/App.jsx
C27_FallbackFile ==
  (FrontendSaved /\ \A n \in DOMAIN TaggedIn(text) : ~Accepted(TaggedIn(text)[n]))
    => /\ obs.out.kind = "return"
       /\ ReturnedKeys = {<<"src", "/", "App.jsx">>}
       /\ FrontendTarget(<<"src", "/", "App.jsx">>) \in DOMAIN fs
       /\ fs[FrontendTarget(<<"src", "/", "App.jsx">>)]
            = IsFile(extract_code_from_markdown(text))

\* C30: every file save_frontend has written lies inside the project's
\* frontend/ directory, whatever path tags the validated blocks carry
C30_FilesInsideFrontend ==
  FrontendSaved =>
    \A at \in DOMAIN fs :
      fs[at].t = "file" => StartsWith(at, Normal(FrontendDir) \o <<"/">>)

\* the fenced block _extract_requirements_txt takes the requirements from:
\* the first block tagged requirements.txt, else the first txt block that
\* mentions requirements
RequirementsBlock(output) ==
  LET Choose(match, match2) == IF match.ok THEN match ELSE match2
  IN Choose(FencedSearch(output, 1, RequirementsTags, FALSE),
            TxtBlockSearch(output))
\* sub is a run of consecutive tokens of s
Occurs(sub, s) ==
  \E i \in 1..(Len(s) - Len(sub) + 1) : SubSeq(s, i, i + Len(sub) - 1) = sub

\* C28: when process takes requirements_txt from a fenced block of the
\* output, the code it returns does not contain that block
C28_RequirementsBlockRemoved ==
  (obs.call.op = "code_generator.process" /\ RequirementsBlock(text).ok)
    => ~Occurs(SubSeq(text, RequirementsBlock(text).start,
                      RequirementsBlock(text).end),
               obs.out.val.d["code"].v)

\* C29: in every state of the server the names that have an inbox are
\* exactly the registered agents
C29_InboxesAreAgents == DOMAIN message_queue = agents

====
